---------------------------- MODULE Spec2Model ----------------------------
(***************************************************************************)
(* A model of the SME retrieval and answer engine of cleanlight_backend:   *)
(* smesvc/emb.py, smesvc/bundle.py, smesvc/ask.py, smesvc/rerank.py and    *)
(* smesvc/answer_modes.py.                                                 *)
(*                                                                         *)
(* Python strings are sequences of one-character strings, so that length,  *)
(* slicing, splitting and substring search are computed as Python computes *)
(* them; a character outside ASCII is written by its code point, "U+2019". *)
(* Python dicts are records; a missing key is a missing field.             *)
(***************************************************************************)
EXTENDS Integers, Sequences, FiniteSets, TLC

VARIABLES
    call,       \* SpecFn: the call of a pure function being made, with its result
    _model,     \* emb._model, the process-wide model handle (None or a handle)
    built,      \* how many SentenceTransformer objects were constructed
    thr,        \* SpecLoad: per request thread, its position inside embed_texts
    bld,        \* Spec: the frame of the bundle.build call in progress
    ask,        \* Spec: the frame of the ask.run call in progress
    _IMPORT_SESSIONS,   \* SpecImport: the import sessions, by session id
    issued,     \* SpecImport: how many session ids uuid4 has given out
    resp,       \* SpecImport: the last import request and its response
    closed      \* SpecImport: the ids finalize or abort has answered 200 for,
                \* each with the handler that did

vars == <<call, _model, built, thr, bld, ask, _IMPORT_SESSIONS, issued, resp, closed>>

\* The state of the import sessions.
impvars == <<_IMPORT_SESSIONS, issued, resp, closed>>

\* No import session was ever initiated, no import request was made.
NoImports ==
    /\ _IMPORT_SESSIONS = << >>
    /\ issued = 0
    /\ resp = [op |-> "none"]
    /\ closed = {}

\* The state of the embedding model and of the threads loading it.
loadvars == <<_model, built, thr>>

\* The state of the request being served.
reqvars == <<bld, ask>>

(***************************************************************************)
(* Python values                                                           *)
(***************************************************************************)

\* None where an identifier, a handle or a number is expected.
None == "None"

\* _model = None: no embedding model is loaded.  A loaded model is a
\* positive number.
NoModel == 0

\* None where a str is expected (TLC cannot compare a string with a
\* sequence, so None among str values is a sequence no str equals).
NoneStr == <<"<None>">>

\* `x or ""` for a str-or-None x.
OrEmpty(x) == IF x = NoneStr THEN << >> ELSE x

\* dict.get(k, default)
Get(d, k, default) == IF k \in DOMAIN d THEN d[k] ELSE default

Min(a, b) == IF a <= b THEN a ELSE b

Max(a, b) == IF a >= b THEN a ELSE b

\* s[:k], with Python's meaning of a negative k (count from the end).
SliceTo(s, k) ==
    IF k >= 0 THEN SubSeq(s, 1, Min(k, Len(s)))
    ELSE SubSeq(s, 1, Max(Len(s) + k, 0))

Whitespace == {" ", "\t", "\n"}

Alphabet ==
    <<"a", "b", "c", "d", "e", "f", "g", "h", "i", "j", "k", "l", "m",
      "n", "o", "p", "q", "r", "s", "t", "u", "v", "w", "x", "y", "z">>

Capitals ==
    <<"A", "B", "C", "D", "E", "F", "G", "H", "I", "J", "K", "L", "M",
      "N", "O", "P", "Q", "R", "S", "T", "U", "V", "W", "X", "Y", "Z">>

LowerLetters == {Alphabet[i] : i \in 1..Len(Alphabet)}

UpperLetters == {Capitals[i] : i \in 1..Len(Capitals)}

Letters == LowerLetters \cup UpperLetters

Digits == {"0", "1", "2", "3", "4", "5", "6", "7", "8", "9"}

IndexOf(seq, c) == CHOOSE i \in 1..Len(seq) : seq[i] = c

UpperToLower == [c \in UpperLetters |-> Alphabet[IndexOf(Capitals, c)]]

LowerToUpper == [c \in LowerLetters |-> Capitals[IndexOf(Alphabet, c)]]

\* str.lower()
Lower(s) ==
    [i \in 1..Len(s) |-> IF s[i] \in UpperLetters THEN UpperToLower[s[i]] ELSE s[i]]

\* str.isalpha(): non-empty and every character a letter
IsAlpha(s) == Len(s) > 0 /\ \A i \in 1..Len(s) : s[i] \in Letters

\* `sub in s`
Contains(s, sub) ==
    \E i \in 1..(Len(s) - Len(sub) + 1) : SubSeq(s, i, i + Len(sub) - 1) = sub

\* s.startswith(p)
StartsWith(s, p) == Len(p) <= Len(s) /\ SubSeq(s, 1, Len(p)) = p

RECURSIVE LStrip(_)
LStrip(s) == IF s # << >> /\ Head(s) \in Whitespace THEN LStrip(Tail(s)) ELSE s

RECURSIVE RStrip(_)
RStrip(s) ==
    IF s # << >> /\ s[Len(s)] \in Whitespace THEN RStrip(SubSeq(s, 1, Len(s) - 1)) ELSE s

\* str.strip()
Strip(s) == RStrip(LStrip(s))

\* str.split(): the maximal runs of non-whitespace characters, in order.
\* A token starts where a non-whitespace character follows whitespace or
\* the start, and ends before the next whitespace or at the end.
Split(s) ==
    LET n == Len(s)
        starts == {i \in 1..n : s[i] \notin Whitespace /\ (i = 1 \/ s[i - 1] \in Whitespace)}
        ends == {j \in 1..n : s[j] \notin Whitespace /\ (j = n \/ s[j + 1] \in Whitespace)}
        Nth(S, k) == CHOOSE i \in S : Cardinality({j \in S : j < i}) = k - 1
    IN [k \in 1..Cardinality(starts) |-> SubSeq(s, Nth(starts, k), Nth(ends, k))]

Range(f) == {f[i] : i \in DOMAIN f}

(***************************************************************************)
(* smesvc/ask.py: mode selection                                           *)
(***************************************************************************)

kw_component == <<"c","o","m","p","o","n","e","n","t">>
kw_components == <<"c","o","m","p","o","n","e","n","t","s">>
kw_parts == <<"p","a","r","t","s">>
kw_comprise == <<"c","o","m","p","r","i","s","e">>
kw_assembly == <<"a","s","s","e","m","b","l","y">>
kw_how_ == <<"h","o","w"," ">>
kw_how_do == <<"h","o","w"," ","d","o">>
kw_how_to == <<"h","o","w"," ","t","o">>
kw_steps == <<"s","t","e","p","s">>
kw_compare == <<"c","o","m","p","a","r","e">>
kw__compare_ == <<" ","c","o","m","p","a","r","e"," ">>
kw_vs == <<" ","v","s"," ">>
kw_difference == <<"d","i","f","f","e","r","e","n","c","e">>
kw_what_is == <<"w","h","a","t"," ","i","s">>
kw_define == <<"d","e","f","i","n","e">>
kw_definition == <<"d","e","f","i","n","i","t","i","o","n">>

AssemblyKeywords == {kw_component, kw_components, kw_parts, kw_comprise, kw_assembly}

\* A variant of _choose_mode that tests the procedure rule first.
_choose_mode_ProcedureFirst(q) ==
    LET ql == Lower(OrEmpty(q)) IN
    IF (\E p \in {kw_how_, kw_how_do, kw_how_to} : StartsWith(ql, p)) \/ Contains(ql, kw_steps)
    THEN "procedure"
    ELSE IF \E k \in AssemblyKeywords : Contains(ql, k) THEN "assembly"
    ELSE IF Contains(ql, kw_compare) \/ Contains(ql, kw_vs) \/ Contains(ql, kw_difference)
    THEN "comparison"
    ELSE IF \E p \in {kw_what_is, kw_define, kw_definition} : StartsWith(ql, p)
    THEN "definition"
    ELSE "sme"

_choose_mode(q) ==
    LET ql == Lower(OrEmpty(q)) IN
    IF \E k \in AssemblyKeywords : Contains(ql, k) THEN "assembly"
    ELSE IF (\E p \in {kw_how_, kw_how_do, kw_how_to} : StartsWith(ql, p)) \/ Contains(ql, kw_steps)
    THEN "procedure"
    ELSE IF Contains(ql, kw_compare) \/ Contains(ql, kw_vs) \/ Contains(ql, kw_difference)
    THEN "comparison"
    ELSE IF \E p \in {kw_what_is, kw_define, kw_definition} : StartsWith(ql, p)
    THEN "definition"
    ELSE "sme"

\* answer_modes.choose_mode: the mode of the first matching rule; the
\* comparison rule looks for " compare " with a space on either side.
choose_mode(question) ==
    LET q == Lower(OrEmpty(question)) IN
    IF (\E p \in {kw_how_, kw_how_do, kw_how_to} : StartsWith(q, p)) \/ Contains(q, kw_steps)
    THEN "procedure"
    ELSE IF \E k \in {kw__compare_, kw_vs, kw_difference} : Contains(q, k)
    THEN "comparison"
    ELSE IF \E p \in {kw_what_is, kw_define, kw_definition} : StartsWith(q, p)
    THEN "definition"
    ELSE "sme"

(***************************************************************************)
(* Scores.  A score is a fraction [num, den] with den > 0, compared        *)
(* exactly; Python computes the same quantities in floating point.         *)
(***************************************************************************)

Frac(n, d) == [num |-> n, den |-> d]

FracLess(a, b) == a.num * b.den < b.num * a.den

FracEq(a, b) == a.num * b.den = b.num * a.den

\* A variant of the sort that puts the later of two equal keys first.
SortedDescending_LaterFirst(keys) ==
    LET n == Len(keys)
        Before(j, i) == FracLess(keys[i], keys[j]) \/ (FracEq(keys[i], keys[j]) /\ j > i)
        Rank(i) == 1 + Cardinality({j \in 1..n : Before(j, i)})
    IN [r \in 1..n |-> CHOOSE i \in 1..n : Rank(i) = r]

\* sorted(xs, key=..., reverse=True), as the order of the indices of xs:
\* Python's sort is stable also when reversed, so an index comes before
\* another when its key is greater, or equal and it came first.
SortedDescending(keys) ==
    LET n == Len(keys)
        Before(j, i) == FracLess(keys[i], keys[j]) \/ (FracEq(keys[i], keys[j]) /\ j < i)
        Rank(i) == 1 + Cardinality({j \in 1..n : Before(j, i)})
    IN [r \in 1..n |-> CHOOSE i \in 1..n : Rank(i) = r]

\* The result of a call: a returned value or a raised exception.
Return(v) == [exc |-> None, val |-> v]

Raise(e) == [exc |-> e, val |-> << >>]

(***************************************************************************)
(* smesvc/ask.py: _rerank, and smesvc/rerank.py: rerank                    *)
(***************************************************************************)

_q_tokens(q) == {t \in Range(Split(Lower(OrEmpty(q)))) : IsAlpha(t)}

BandWidth == 200

AskBrevityLen == 120

\* cov of score() in _rerank: sum(1 for t in qtok if t in txt) / (len(qtok) or 1)
_rerank_cov(qtok, ch) ==
    LET txt == Lower(OrEmpty(Get(ch, "text", NoneStr)))
        hits == Cardinality({t \in qtok : Contains(txt, t)})
        n == IF Cardinality(qtok) = 0 THEN 1 ELSE Cardinality(qtok)
    IN Frac(hits, n)

\* score() of _rerank: 0.7*cov + 0.3*brev with cov = hits / (len(qtok) or 1)
\* and brev = 1.0 / max(len(txt), 120) * 120.
_rerank_score(qtok, ch) ==
    LET txt == Lower(OrEmpty(Get(ch, "text", NoneStr)))
        hits == _rerank_cov(qtok, ch).num
        n == _rerank_cov(qtok, ch).den
        L == Max(Len(txt), AskBrevityLen)
    IN Frac(7 * hits * L + 3 * AskBrevityLen * n, 10 * n * L)

\* The band of a candidate in _rerank; len(None) raises TypeError.
_rerank_band(ch) ==
    <<Get(ch, "doc_id", None), Len(Get(ch, "text", << >>)) \div BandWidth>>

\* A variant of the selection loop that never skips a candidate.
RECURSIVE _rerank_select_NoSkip(_, _, _, _)
_rerank_select_NoSkip(ranked, seen, out, top_k) ==
    IF ranked = << >> THEN Return(out)
    ELSE LET ch == Head(ranked) IN
         IF Get(ch, "text", << >>) = NoneStr THEN Raise("TypeError")
         ELSE IF Len(out) + 1 >= Max(1, top_k) THEN Return(Append(out, ch))
         ELSE _rerank_select_NoSkip(Tail(ranked), seen, Append(out, ch), top_k)

\* The loop of _rerank over the sorted candidates.
RECURSIVE _rerank_select(_, _, _, _)
_rerank_select(ranked, seen, out, top_k) ==
    IF ranked = << >> THEN Return(out)
    ELSE LET ch == Head(ranked) IN
         IF Get(ch, "text", << >>) = NoneStr THEN Raise("TypeError")
         ELSE IF _rerank_band(ch) \in seen
              THEN _rerank_select(Tail(ranked), seen, out, top_k)
         ELSE IF Len(out) + 1 >= Max(1, top_k) THEN Return(Append(out, ch))
         ELSE _rerank_select(Tail(ranked), seen \cup {_rerank_band(ch)},
                             Append(out, ch), top_k)

\* A variant of _rerank that sorts and cuts without looking at the bands.
_rerank_NoBands(question, candidates, top_k) ==
    LET qtok == _q_tokens(question)
        keys == [i \in 1..Len(candidates) |-> _rerank_score(qtok, candidates[i])]
        order == SortedDescending(keys)
        ranked == [r \in 1..Len(candidates) |-> candidates[order[r]]]
    IN Return(SliceTo(ranked, Max(1, top_k)))

_rerank(question, candidates, top_k) ==
    LET qtok == _q_tokens(question)
        keys == [i \in 1..Len(candidates) |-> _rerank_score(qtok, candidates[i])]
        order == SortedDescending(keys)
        ranked == [r \in 1..Len(candidates) |-> candidates[order[r]]]
    IN _rerank_select(ranked, {}, << >>, top_k)

RerankBrevityLen == 80

\* cov of score() in rerank.rerank: len(q_tokens & toks) / (len(q_tokens) or 1)
rerank_cov(q_tokens, ch) ==
    LET txt == Lower(OrEmpty(Get(ch, "text", NoneStr)))
        toks == {t \in Range(Split(txt)) : IsAlpha(t)}
        hits == Cardinality(q_tokens \cap toks)
        n == IF Cardinality(q_tokens) = 0 THEN 1 ELSE Cardinality(q_tokens)
    IN Frac(hits, n)

\* score() of rerank.rerank: 0.65*cov + 0.35*brev over alphabetic tokens.
rerank_score(q_tokens, ch) ==
    LET txt == Lower(OrEmpty(Get(ch, "text", NoneStr)))
        hits == rerank_cov(q_tokens, ch).num
        n == rerank_cov(q_tokens, ch).den
        L == Max(Len(txt), RerankBrevityLen)
    IN Frac(65 * hits * L + 35 * RerankBrevityLen * n, 100 * n * L)

rerank_band(ch) == Len(OrEmpty(Get(ch, "text", NoneStr))) \div BandWidth

RECURSIVE rerank_select(_, _, _, _)
rerank_select(ranked, seen_bands, out, top_k) ==
    IF ranked = << >> THEN out
    ELSE LET ch == Head(ranked) IN
         IF rerank_band(ch) \in seen_bands
         THEN rerank_select(Tail(ranked), seen_bands, out, top_k)
         ELSE IF Len(out) + 1 >= Max(1, top_k) THEN Append(out, ch)
         ELSE rerank_select(Tail(ranked), seen_bands \cup {rerank_band(ch)},
                            Append(out, ch), top_k)

rerank(question, candidates, top_k) ==
    LET q_tokens == {t \in Range(Split(Lower(OrEmpty(question)))) : IsAlpha(t)}
        keys == [i \in 1..Len(candidates) |-> rerank_score(q_tokens, candidates[i])]
        order == SortedDescending(keys)
        ranked == [r \in 1..Len(candidates) |-> candidates[order[r]]]
    IN Return(rerank_select(ranked, {}, << >>, top_k))

(***************************************************************************)
(* smesvc/ask.py: _assemble_answer, and smesvc/answer_modes.py: assemble   *)
(***************************************************************************)

APOLOGY == <<"I"," ","d","o","n","U+2019","t"," ","h","a","v","e"," ","e","n","o","u","g","h"," ","e","v","i","d","e","n","c","e"," ","t","o"," ","a","n","s","w","e","r"," ","c","o","n","f","i","d","e","n","t","l","y",".">>

s_steps_head == <<"S","t","e","p","s",":","\n","-"," ">>

s_steps_sep == <<"\n","-"," ">>

s_summary_a == <<"S","u","m","m","a","r","y"," ","(","A"," ","v","s"," ","B",")",":","\n","-"," ","E","v","i","d","e","n","c","e"," ","A",":"," ">>

s_summary_b == <<"\n","-"," ","E","v","i","d","e","n","c","e"," ","B",":"," ">>

s_components_head == <<"T","y","p","i","c","a","l"," ","c","o","m","p","o","n","e","n","t","s",":"," ">>

s_bullet == <<" ","U+2022"," ">>

AskVerbs ==
    { <<"s","e","w">>,
      <<"s","t","i","t","c","h">>,
      <<"t","u","r","n">>,
      <<"g","a","t","h","e","r">>,
      <<"p","r","e","s","s">>,
      <<"j","o","i","n">>,
      <<"a","t","t","a","c","h">>,
      <<"b","i","n","d">> }

ModesVerbs ==
    { <<"s","e","w">>,
      <<"s","t","i","t","c","h">>,
      <<"t","u","r","n">>,
      <<"g","a","t","h","e","r">>,
      <<"p","r","e","s","s">>,
      <<"j","o","i","n">> }

StopWords ==
    { <<"t","h","e">>,
      <<"a","n","d">>,
      <<"w","i","t","h">>,
      <<"f","r","o","m">>,
      <<"i","n","t","o">>,
      <<"o","v","e","r">>,
      <<"u","n","d","e","r">>,
      <<"i","n","c","h">>,
      <<"i","n","c","h","e","s">>,
      <<"p","a","g","e">>,
      <<"p","a","g","e","s">>,
      <<"f","i","g","u","r","e">> }

DomainTerms ==
    { <<"s","w","e","a","t">>,
      <<"l","e","a","t","h","e","r">>,
      <<"r","e","e","d">>,
      <<"t","a","p","e">>,
      <<"b","i","n","d","i","n","g">>,
      <<"l","i","n","i","n","g">>,
      <<"s","t","i","t","c","h">>,
      <<"b","a","n","d">>,
      <<"s","e","a","m">> }

SetMax(S) == CHOOSE x \in S : \A y \in S : y <= x

\* s.split(sep) for a one-character sep: the pieces between the separators,
\* empty pieces included.
SplitOn(s, sep) ==
    LET at == {i \in 1..Len(s) : s[i] = sep}
        Nth(k) == IF k = 0 THEN 0
                  ELSE IF k > Cardinality(at) THEN Len(s) + 1
                  ELSE CHOOSE i \in at : Cardinality({j \in at : j < i}) = k - 1
    IN [k \in 1..(Cardinality(at) + 1) |-> SubSeq(s, Nth(k - 1) + 1, Nth(k) - 1)]

\* The concatenation of a list of lists.
RECURSIVE ConcatAll(_)
ConcatAll(ss) == IF ss = << >> THEN << >> ELSE Head(ss) \o ConcatAll(Tail(ss))

\* sep.join(strs)
RECURSIVE Join(_, _)
Join(strs, sep) ==
    IF strs = << >> THEN << >>
    ELSE IF Len(strs) = 1 THEN strs[1]
    ELSE strs[1] \o sep \o Join(Tail(strs), sep)

\* \w of the regular expressions
WordChars == Letters \cup Digits \cup {"_"}

\* \b after the first p characters of s
WordBoundary(s, p) ==
    LET before == p >= 1 /\ s[p] \in WordChars
        after == p < Len(s) /\ s[p + 1] \in WordChars
    IN before # after

PhraseChars == Letters \cup {"-", " "}

\* The index of the last character of the match of
\* \b([A-Za-z][A-Za-z\- ]{2,18})\b that starts at s[i], or 0 when none
\* starts there: the repetition is greedy, so the longest one that ends at
\* a word boundary.
PhraseEnd(s, i) ==
    IF ~WordBoundary(s, i - 1) \/ s[i] \notin Letters THEN 0
    ELSE LET lens == {r \in 2..18 : /\ i + r <= Len(s)
                                    /\ \A k \in 1..r : s[i + k] \in PhraseChars
                                    /\ WordBoundary(s, i + r)}
         IN IF lens = {} THEN 0 ELSE i + SetMax(lens)

\* re.findall of that pattern in s, scanning from s[i]: matches do not overlap.
RECURSIVE FindPhrases(_, _, _)
FindPhrases(s, i, acc) ==
    IF i > Len(s) THEN acc
    ELSE IF PhraseEnd(s, i) = 0 THEN FindPhrases(s, i + 1, acc)
    ELSE FindPhrases(s, PhraseEnd(s, i) + 1, Append(acc, SubSeq(s, i, PhraseEnd(s, i))))

\* str.title(): a letter that follows a non-letter is upper-cased, every other lower-cased.
Title(s) ==
    [i \in 1..Len(s) |->
        IF s[i] \notin Letters THEN s[i]
        ELSE IF i = 1 \/ s[i - 1] \notin Letters
             THEN (IF s[i] \in LowerLetters THEN LowerToUpper[s[i]] ELSE s[i])
             ELSE (IF s[i] \in UpperLetters THEN UpperToLower[s[i]] ELSE s[i])]

\* The characters a component phrase is made of, in code point order.
CodePointOrder == <<" ", "-">> \o Capitals \o Alphabet

\* a < b for two str made of those characters
StrLess(a, b) ==
    \E k \in 1..(Min(Len(a), Len(b)) + 1) :
        /\ SubSeq(a, 1, k - 1) = SubSeq(b, 1, k - 1)
        /\ IF k > Len(a) THEN k <= Len(b)
           ELSE k <= Len(b) /\ IndexOf(CodePointOrder, a[k]) < IndexOf(CodePointOrder, b[k])

\* sorted(S) for a set of str
SortedStrs(S) ==
    [r \in 1..Cardinality(S) |->
        CHOOSE x \in S : Cardinality({y \in S : StrLess(y, x)}) = r - 1]

\* The sentences of the first n texts that hold one of the verbs.
ProcedureSteps(texts, verbs, n) ==
    LET first == SliceTo(texts, n)
        pieces == ConcatAll([i \in 1..Len(first) |-> SplitOn(first[i], ".")])
        stripped == [i \in 1..Len(pieces) |-> Strip(pieces[i])]
    IN SelectSeq(stripped,
                 LAMBDA x : x # << >> /\ \E k \in verbs : Contains(Lower(x), k))

\* The component phrases of the first 8 texts, title-cased and sorted.
AssemblyItems(texts) ==
    LET first == SliceTo(texts, 8)
        found == Range(ConcatAll([i \in 1..Len(first) |-> FindPhrases(first[i], 1, << >>)]))
        kept == {m \in found :
                    /\ Strip(Lower(m)) \notin StopWords
                    /\ \E k \in DomainTerms : Contains(Strip(Lower(m)), k)}
    IN SortedStrs({Title(Strip(m)) : m \in kept})

SmeAnswer(texts, n) == SliceTo(Join(texts, <<" ">>), n)

ProcedureAnswer(texts, steps, n) ==
    s_steps_head \o Join(IF SliceTo(steps, n) = << >> THEN <<texts[1]>> ELSE SliceTo(steps, n),
                         s_steps_sep)

ComparisonAnswer(texts, n) ==
    s_summary_a \o SliceTo(texts[1], n) \o s_summary_b
        \o (IF Len(texts) > 1 THEN SliceTo(texts[2], n) ELSE SliceTo(texts[1], n))

\* A variant that keeps every chunk that has a text, the empty text included.
_assemble_texts_KeepEmpty(chunks) ==
    LET kept == SelectSeq(chunks, LAMBDA c : Get(c, "text", NoneStr) # NoneStr)
    IN [i \in 1..Len(kept) |-> Strip(kept[i].text)]

\* The texts an answer is assembled from: the stripped text of every chunk
\* whose text is truthy.
_assemble_texts(chunks) ==
    LET kept == SelectSeq(chunks, LAMBDA c : Get(c, "text", NoneStr) \notin {NoneStr, << >>})
    IN [i \in 1..Len(kept) |-> Strip(kept[i].text)]

_assemble_answer(chunks, mode) ==
    LET texts == _assemble_texts(chunks) IN
    IF texts = << >> THEN APOLOGY
    ELSE IF mode = "procedure" THEN ProcedureAnswer(texts, ProcedureSteps(texts, AskVerbs, 6), 8)
    ELSE IF mode = "comparison" THEN ComparisonAnswer(texts, 260)
    ELSE IF mode = "assembly" /\ AssemblyItems(texts) # << >>
    THEN s_components_head \o Join(SliceTo(AssemblyItems(texts), 12), s_bullet) \o <<".">>
    ELSE IF mode = "definition" THEN SliceTo(texts[1], 700)
    ELSE SmeAnswer(texts, 1400)

assemble(chunks, mode) ==
    LET texts == _assemble_texts(chunks) IN
    IF texts = << >> THEN APOLOGY
    ELSE IF mode = "procedure" THEN ProcedureAnswer(texts, ProcedureSteps(texts, ModesVerbs, 5), 7)
    ELSE IF mode = "comparison" THEN ComparisonAnswer(texts, 240)
    ELSE IF mode = "definition" THEN SliceTo(texts[1], 600)
    ELSE SmeAnswer(texts, 1200)

(***************************************************************************)
(* smesvc/emb.py                                                           *)
(***************************************************************************)

\* _load_model() run without interruption: the model held, or the outcome
\* ld ("ok", "fail") of constructing one.  A failed load leaves None.
_load_model(m, ld) ==
    IF m # NoModel THEN m
    ELSE IF ld = "ok" THEN built + 1
    ELSE NoModel

\* embed_texts(texts): "None" when no model could be loaded, else what
\* m.encode does, enc: it returns the "vectors" or it is a "raise".
embed_texts(m, ld, enc) ==
    IF _load_model(m, ld) = NoModel THEN "None" ELSE enc

\* lexical_score(q, text): the share of the query's tokens of more than two
\* characters that are tokens of the text.
lexical_score(q, text) ==
    IF q = << >> \/ text \in {NoneStr, << >>} THEN Frac(0, 1)
    ELSE LET qs == {tok \in Range(Split(Lower(q))) : Len(tok) > 2}
             ts == Range(Split(Lower(text)))
         IN IF qs = {} THEN Frac(0, 1)
            ELSE Frac(Cardinality(qs \cap ts), Max(1, Cardinality(qs)))

(***************************************************************************)
(* smesvc/bundle.py                                                        *)
(***************************************************************************)

s_None == <<"N","o","n","e">>

\* str(x) inside an f-string
Str(x) == IF x = NoneStr THEN s_None ELSE x

\* The store the requests read: subjects, documents, graph nodes, chunks.
Store ==
    [ kcs |-> << [id |-> 1, q |-> <<"h","a","t"," ","p","a","r","t","s">>, a_ref |-> "c1"] >>,
      docs |-> << [doc_id |-> "d1", title |-> <<"H","a","t","s">>, meta |-> [author |-> <<"a","n","n">>]],
                  [doc_id |-> "d2", title |-> NoneStr] >>,
      graph |-> << [id |-> 1, doc_id |-> "d1", label |-> <<"B","r","i","m">>, ntype |-> "topic", page |-> 1],
                   [id |-> 2, doc_id |-> "d1", label |-> <<"p","a","r","t","s">>, ntype |-> "topic", page |-> 2] >>,
      chunks |-> << [id |-> 1, doc_id |-> "d1", page_from |-> 1, page_to |-> 1,
                     text |-> <<"h","a","t"," ","p","a","r","t","s">>],
                    [id |-> 2, doc_id |-> "d1", page_from |-> 2, page_to |-> 2,
                     text |-> <<"b","r","i","m">>],
                    [id |-> 3, doc_id |-> "d1", page_from |-> 3, page_to |-> 3,
                     text |-> <<"a"," ","h","a","t">>] >> ]

\* The same store with the third chunk in the second document.
StoreTwoDocs == [Store EXCEPT !.chunks[3].doc_id = "d2"]

\* What the store can hold when a query is made.
Stores == {Store, StoreTwoDocs}

Levels == <<"l0", "l1", "l2", "l3">>

LevelTable == [l0 |-> "kcs", l1 |-> "docs", l2 |-> "graph", l3 |-> "chunks"]

\* .limit(n) of each level's query
FetchCap == [l0 |-> 200, l1 |-> 50, l2 |-> 300, l3 |-> 300]

AfterLevel == [l0 |-> "l1", l1 |-> "l2", l2 |-> "l3", l3 |-> "finish"]

DefaultLim == [l0 |-> 8, l1 |-> 5, l2 |-> 25, l3 |-> 20, chunk_text_max |-> 300]

\* limits = None, or an empty dict
NoLimits == << >>

\* lim after lim.update(...): the caller's limits for the known keys.
EffectiveLim(limits) ==
    [k \in DOMAIN DefaultLim |->
        IF k \in DOMAIN limits THEN limits[k] ELSE DefaultLim[k]]

\* The rows a level's query returns when it succeeds.
StoreRows(st, level) == SliceTo(st[LevelTable[level]], FetchCap[level])

LevelRows(level) == StoreRows(Store, level)

\* The text of a row that is scored against the topic.
RowText(level, row) ==
    CASE level = "l0" -> Get(row, "q", << >>)
      [] level = "l1" ->
            Str(Get(row, "title", << >>)) \o <<" ">>
            \o Str(IF "meta" \in DOMAIN row THEN Get(row.meta, "author", << >>) ELSE << >>)
      [] level = "l2" -> Get(row, "label", << >>)
      [] level = "l3" -> Get(row, "text", << >>)

\* A variant of _topk_scored that keeps the last k of the sorted rows.
_topk_scored_LastK(scores, rows, k) ==
    LET n == Min(Len(scores), Len(rows))
        order == SortedDescending(SubSeq(scores, 1, n))
    IN SubSeq([r \in 1..n |-> rows[order[r]]], Max(1, n - k + 1), n)

\* _topk_scored(pairs, k): the rows by descending score, the first k.
_topk_scored(scores, rows, k) ==
    LET n == Min(Len(scores), Len(rows))
        order == SortedDescending(SubSeq(scores, 1, n))
    IN SliceTo([r \in 1..n |-> rows[order[r]]], k)

\* topic = (topic or "").strip()
NormalizeTopic_NoStrip(topic) == OrEmpty(topic)

NormalizeTopic(topic) == Strip(OrEmpty(topic))

\* t[:mx-1] + the ellipsis
TruncateText(txt, mx) == SliceTo(txt, mx - 1) \o <<"U+2026">>

\* The truncation step of build for one chunk of l3.
TruncateChunk(c, mx) ==
    LET txt == Get(c, "text", << >>) IN
    IF txt # NoneStr /\ Len(txt) > mx
    THEN [k \in DOMAIN c \cup {"text"} |-> IF k = "text" THEN TruncateText(txt, mx) ELSE c[k]]
    ELSE c

EmptyBundle(topic) ==
    [topic |-> topic, l0 |-> << >>, l1 |-> << >>, l2 |-> << >>, l3 |-> << >>,
     meta |-> [note |-> "empty topic"]]

\* No build call is in progress.
NoBuild == [pc |-> "none"]

\* The frame of build(topic, limits) as it is entered.  scored, queries,
\* embeds and load_failed record what the call did.
BuildFrame(caller, topic, limits) ==
    [pc |-> "enter", caller |-> caller, arg_topic |-> topic, arg_limits |-> limits,
     topic |-> << >>, lim |-> DefaultLim,
     l0 |-> << >>, l1 |-> << >>, l2 |-> << >>, l3 |-> << >>,
     scored |-> [l \in Range(Levels) |-> "none"],
     queries |-> 0, embeds |-> 0, load_failed |-> FALSE,
     ret |-> Return(None)]

(***************************************************************************)
(* smesvc/calibrate.py.  The features are in tenths (coverage 7 is 0.7),   *)
(* so that z is a whole number of hundredths, and a confidence is in       *)
(* thousandths.                                                            *)
(***************************************************************************)

\* round(_sigmoid(z), 3) in thousandths, for z = -2.00, -1.98, ..., 3.40:
\* the values of 1.0 / (1.0 + exp(-z)), which has no closed form in
\* integers, tabulated over every z the features in tenths can give.
SigmoidThousandths ==
    << 119, 121, 123, 126, 128, 130, 132, 135, 137, 139, 142, 144, 147, 149, 152,
       154, 157, 160, 162, 165, 168, 171, 174, 177, 179, 182, 185, 188, 192, 195,
       198, 201, 204, 208, 211, 214, 218, 221, 224, 228, 231, 235, 239, 242, 246,
       250, 254, 257, 261, 265, 269, 273, 277, 281, 285, 289, 293, 297, 302, 306,
       310, 314, 319, 323, 327, 332, 336, 341, 345, 350, 354, 359, 364, 368, 373,
       378, 382, 387, 392, 397, 401, 406, 411, 416, 421, 426, 430, 435, 440, 445,
       450, 455, 460, 465, 470, 475, 480, 485, 490, 495, 500, 505, 510, 515, 520,
       525, 530, 535, 540, 545, 550, 555, 560, 565, 570, 574, 579, 584, 589, 594,
       599, 603, 608, 613, 618, 622, 627, 632, 636, 641, 646, 650, 655, 659, 664,
       668, 673, 677, 681, 686, 690, 694, 698, 703, 707, 711, 715, 719, 723, 727,
       731, 735, 739, 743, 746, 750, 754, 758, 761, 765, 769, 772, 776, 779, 782,
       786, 789, 792, 796, 799, 802, 805, 808, 812, 815, 818, 821, 823, 826, 829,
       832, 835, 838, 840, 843, 846, 848, 851, 853, 856, 858, 861, 863, 865, 868,
       870, 872, 874, 877, 879, 881, 883, 885, 887, 889, 891, 893, 895, 897, 898,
       900, 902, 904, 906, 907, 909, 911, 912, 914, 915, 917, 918, 920, 921, 923,
       924, 926, 927, 928, 930, 931, 932, 933, 935, 936, 937, 938, 939, 940, 942,
       943, 944, 945, 946, 947, 948, 949, 950, 951, 952, 953, 953, 954, 955, 956,
       957, 958, 959, 959, 960, 961, 962, 962, 963, 964, 964, 965, 966, 966, 967,
       968 >>

\* round(_sigmoid(z100 / 100), 3), in thousandths
_sigmoid_round3(z100) == SigmoidThousandths[(z100 + 200) \div 2 + 1]

\* A variant of calibrate that takes the penalty off when the fallback was
\* not used.
calibrate_PenaltyInverted(conf_feats) ==
    LET cov == Get(conf_feats, "coverage", 6)
        con == Get(conf_feats, "consistency", 9)
        div == Get(conf_feats, "diversity", 7)
        fall == Get(conf_feats, "lexical_fallback", FALSE)
        z100 == (18 * cov + 16 * con + 12 * div) - (IF fall THEN 0 ELSE 80) - 120
    IN [k \in {"confidence"} \cup DOMAIN conf_feats |->
            IF k \in DOMAIN conf_feats THEN conf_feats[k] ELSE _sigmoid_round3(z100)]

\* calibrate(conf_feats): {"confidence": round(_sigmoid(z), 3), **conf_feats}
\* with z = (1.8*cov + 1.6*con + 1.2*div) - (0.8 if fall else 0.0) - 1.2
calibrate(conf_feats) ==
    LET cov == Get(conf_feats, "coverage", 6)
        con == Get(conf_feats, "consistency", 9)
        div == Get(conf_feats, "diversity", 7)
        fall == Get(conf_feats, "lexical_fallback", FALSE)
        z100 == (18 * cov + 16 * con + 12 * div) - (IF fall THEN 80 ELSE 0) - 120
    IN [k \in {"confidence"} \cup DOMAIN conf_feats |->
            IF k \in DOMAIN conf_feats THEN conf_feats[k] ELSE _sigmoid_round3(z100)]

(***************************************************************************)
(* smesvc/ask.py: expansion and the orchestrator                           *)
(***************************************************************************)

\* _diversity(chunks): distinct document ids over the number of chunks
_diversity(chunks) ==
    LET docs == [i \in 1..Len(chunks) |-> Get(chunks[i], "doc_id", None)]
    IN Frac(Cardinality({d \in Range(docs) : d # None}), Max(1, Len(docs)))

\* The loop of _top_labels over the graph nodes.
RECURSIVE _top_labels_loop(_, _, _, _)
_top_labels_loop(l2, seen, out, k) ==
    IF l2 = << >> THEN out
    ELSE LET lab == Strip(OrEmpty(Get(Head(l2), "label", NoneStr))) IN
         IF lab = << >> \/ Len(lab) > 20 \/ Lower(lab) \in seen
         THEN _top_labels_loop(Tail(l2), seen, out, k)
         ELSE IF Len(out) + 1 >= k THEN Append(out, lab)
         ELSE _top_labels_loop(Tail(l2), seen \cup {Lower(lab)}, Append(out, lab), k)

_top_labels(l2, k) == _top_labels_loop(l2, {}, << >>, k)

\* Whether the notes of a bundle say lexical_fallback.
NotesLexical(bundle_data) ==
    "lexical_fallback" \in Range(Get(bundle_data.meta, "notes", << >>))

_need_expand_Always(bundle_data) == TRUE

\* _need_expand: _diversity(l3) < 0.35 or lexical_fallback
_need_expand(bundle_data) ==
    \/ FracLess(_diversity(bundle_data.l3), Frac(35, 100))
    \/ NotesLexical(bundle_data)

AssemblyPriors ==
    << <<"c","o","m","p","o","n","e","n","t","s">>,
       <<"p","a","r","t","s">>,
       <<"b","i","n","d","i","n","g">>,
       <<"l","i","n","i","n","g">>,
       <<"t","a","p","e">>,
       <<"r","e","e","d">>,
       <<"s","t","i","t","c","h">>,
       <<"b","a","n","d">> >>

\* for t in priors: if t not in labels: labels.append(t)
RECURSIVE AppendMissing(_, _)
AppendMissing(labels, priors) ==
    IF priors = << >> THEN labels
    ELSE AppendMissing(IF Head(priors) \in Range(labels) THEN labels
                       ELSE Append(labels, Head(priors)),
                       Tail(priors))

\* The terms _assembly_expand builds a query for: labels[:max_expands].
ExpansionTerms(seed, bundle_data, max_expands) ==
    LET used == _q_tokens(seed)
        labels == SelectSeq(_top_labels(bundle_data.l2, 12), LAMBDA x : Lower(x) \notin used)
    IN SliceTo(AppendMissing(labels, AssemblyPriors), max_expands)

\* q2 = f"{seed} {term}"
ExpansionQuery(seed, term) == Str(seed) \o <<" ">> \o term

\* limits of run
RunLimits(opts) ==
    [l0 |-> 8, l1 |-> 6, l2 |-> 12, l3 |-> 40,
     chunk_text_max |-> Get(opts, "chunk_text_max", 800)]

Citation_KeepPages(ch) ==
    [k \in DOMAIN ch \cap {"id", "doc_id", "offset", "page_from", "page_to"} |-> ch[k]]

\* A variant of step 3 of run that asks for as many results as there are
\* chunks.
RunRerank_NoCap(question, chunks) == _rerank(question, chunks, Len(chunks))

\* Step 3 of run: _rerank(question, chunks, top_k=min(12, len(chunks) or 12))
RunRerank(question, chunks) ==
    _rerank(question, chunks, Min(12, IF Len(chunks) = 0 THEN 12 ELSE Len(chunks)))

\* The keys of a chunk a citation keeps.
Citation(ch) == [k \in DOMAIN ch \cap {"id", "doc_id", "offset"} |-> ch[k]]

\* round(x, 3), in thousandths (no diversity of at most 12 chunks lies
\* halfway between two thousandths).
Round3(x) == Frac((2000 * x.num + x.den) \div (2 * x.den), 1000)

AnswerPack_TwoEntryTrace(ranked, mode, trace, opts) ==
    [answer |-> _assemble_answer(ranked, mode),
     citations |-> SliceTo([i \in 1..Len(ranked) |-> Citation(ranked[i])],
                           Get(opts, "citations_max", 6)),
     meta |-> [answer_mode |-> mode, diversity |-> Round3(_diversity(ranked))],
     trace |-> trace \o trace]

\* The data of the AnswerPack run returns for the ranked chunks.
AnswerPack(ranked, mode, trace, opts) ==
    [answer |-> _assemble_answer(ranked, mode),
     citations |-> SliceTo([i \in 1..Len(ranked) |-> Citation(ranked[i])],
                           Get(opts, "citations_max", 6)),
     meta |-> [answer_mode |-> mode, diversity |-> Round3(_diversity(ranked))],
     trace |-> IF Get(opts, "return_trace", TRUE) THEN trace ELSE << >>]

\* No run call is in progress.
NoRun == [pc |-> "none"]

\* The frame of run(question, opts) as it calls build for the baseline
\* bundle.  b, chunks, trace and ranked are its local variables; builds
\* counts the build calls made and queries the store queries made in them.
RunFrame(question, opts) ==
    [pc |-> "baseline", question |-> question, opts |-> opts,
     mode |-> _choose_mode(question), limits |-> RunLimits(opts),
     b |-> None, chunks |-> << >>, trace |-> << >>, terms |-> << >>,
     ranked |-> << >>, builds |-> 1, queries |-> 0, ret |-> Return(None)]

(***************************************************************************)
(* Spec: one request at a time, bundle.build(topic, limits) or             *)
(* ask.run(question, opts), against the store and the embedding provider.  *)
(* What the store and the provider do is the environment's choice: a       *)
(* query succeeds or raises, loading the model succeeds or fails, encode   *)
(* returns vectors or raises, and the cosine scores are any values.        *)
(***************************************************************************)

\* The largest chunk_text_max a caller of build passes.
MaxBudget == 3

BuildTopics ==
    { NoneStr, << >>, <<" ", "\t">>, <<"h","a","t">>, <<" ","h","a","t"," ","p","a","r","t","s"," ">> }

BuildLimits ==
    {NoLimits, [l3 |-> 2, l9 |-> 1]} \cup {[chunk_text_max |-> m] : m \in 0..MaxBudget}

\* The cosine of the topic's and a text's embeddings: some value in [-1, 1].
CosScores == {Frac(-1, 2), Frac(1, 1)}

Init ==
    /\ call = [op |-> "none"]
    /\ _model = NoModel
    /\ built = 0
    /\ thr = << >>
    /\ bld = NoBuild
    /\ ask = NoRun
    /\ NoImports

\* A caller calls bundle.build(topic, limits).
BuildCall ==
    /\ bld.pc = "none" /\ ask.pc = "none"
    /\ \E topic \in BuildTopics, limits \in BuildLimits :
        bld' = BuildFrame("caller", topic, limits)
    /\ UNCHANGED <<impvars, call, loadvars, ask>>

\* build, up to the creation of the store client: an empty topic returns
\* the empty bundle at once.
BuildEnter ==
    /\ bld.pc = "enter"
    /\ LET topic == NormalizeTopic(bld.arg_topic) IN
       bld' = IF topic = << >>
              THEN [bld EXCEPT !.pc = "done", !.topic = topic,
                               !.ret = Return(EmptyBundle(topic))]
              ELSE [bld EXCEPT !.pc = "l0", !.topic = topic,
                               !.lim = EffectiveLim(bld.arg_limits)]
    /\ UNCHANGED <<impvars, call, loadvars, ask>>

\* One level of build: the query, the scoring of the rows against the
\* topic, and the cut to the level's limit.
BuildLevel ==
    /\ bld.pc \in Range(Levels)
    /\ \E sq \in {"ok", "raise"}, ld \in {"ok", "fail"}, enc \in {"vectors", "raise"} :
       \E st \in Stores, cos \in [1..Len(LevelRows(bld.pc)) -> CosScores] :
        LET level == bld.pc
            rows == StoreRows(st, level)
            texts == [i \in 1..Len(rows) |-> RowText(level, rows[i])]
            embs == embed_texts(_model, ld, enc)
            scores == IF embs = "None"
                      THEN [i \in 1..Len(texts) |-> lexical_score(bld.topic, texts[i])]
                      ELSE cos
        IN IF sq = "raise"
           THEN /\ bld' = [bld EXCEPT !.pc = "done", !.queries = @ + 1,
                                      !.ret = Raise("StoreError")]
                /\ UNCHANGED <<impvars, _model, built>>
           ELSE /\ _model' = _load_model(_model, ld)
                /\ built' = IF _model = NoModel /\ ld = "ok" THEN built + 1 ELSE built
                /\ bld' = IF embs = "raise"
                          THEN [bld EXCEPT !.pc = "done", !.queries = @ + 1, !.embeds = @ + 1,
                                           !.ret = Raise("EncodeError")]
                          ELSE [bld EXCEPT !.pc = AfterLevel[level],
                                           !.queries = @ + 1, !.embeds = @ + 1,
                                           !.load_failed = @ \/ embs = "None",
                                           !.scored[level] =
                                               IF embs = "None" THEN "lexical" ELSE "semantic",
                                           ![level] = _topk_scored(scores, rows, bld.lim[level])]
    /\ UNCHANGED <<impvars, call, thr, ask>>

\* The end of build: the chunk texts are truncated, and the notes come from
\* one more embed_texts call.
BuildFinish ==
    /\ bld.pc = "finish"
    /\ \E ld \in {"ok", "fail"}, enc \in {"vectors", "raise"} :
        LET l3 == [i \in 1..Len(bld.l3) |-> TruncateChunk(bld.l3[i], bld.lim.chunk_text_max)]
            embs == embed_texts(_model, ld, enc)
        IN /\ _model' = _load_model(_model, ld)
           /\ built' = IF _model = NoModel /\ ld = "ok" THEN built + 1 ELSE built
           /\ bld' = IF embs = "raise"
                     THEN [bld EXCEPT !.pc = "done", !.embeds = @ + 1, !.l3 = l3,
                                      !.ret = Raise("EncodeError")]
                     ELSE [bld EXCEPT !.pc = "done", !.embeds = @ + 1, !.l3 = l3,
                                      !.load_failed = @ \/ embs = "None",
                                      !.ret = Return(
                                         [topic |-> bld.topic, l0 |-> bld.l0, l1 |-> bld.l1,
                                          l2 |-> bld.l2, l3 |-> l3,
                                          meta |-> [limits |-> bld.lim,
                                                    notes |-> <<IF embs = "None"
                                                                THEN "lexical_fallback"
                                                                ELSE "semantic">>]])]
    /\ UNCHANGED <<impvars, call, thr, ask>>

\* The caller of build has its result (or its exception); the process is
\* ready for the next request.  The loaded model stays.
BuildDone ==
    /\ bld.pc = "done" /\ bld.caller = "caller"
    /\ bld' = NoBuild
    /\ UNCHANGED <<impvars, call, loadvars, ask>>

\* The questions and options run is called with.
RunQuestions ==
    { << >>, <<" ", " ">>, <<"h","a","t">>, <<"B","r","i","m"," ","p","a","r","t","s","?">> }

\* The largest beam a caller of run passes.
MaxBeam == 1

\* The largest citations_max a caller of run passes.
MaxCitations == 1

RunOpts ==
    { << >>, [return_trace |-> FALSE] }
    \cup {[citations_max |-> n, chunk_text_max |-> 2] : n \in 0..MaxCitations}
    \cup {[beam |-> n] : n \in 0..MaxBeam}

\* The requests made of run: a question that selects the assembly mode comes
\* with an explicit beam, which bounds the number of expansion builds.
RunRequests ==
    {r \in RunQuestions \X RunOpts :
        _choose_mode(r[1]) = "assembly" => "beam" \in DOMAIN r[2]}

\* A caller calls ask.run(question, opts): the mode is chosen and build is
\* called for the baseline bundle.
RunCall ==
    /\ bld.pc = "none" /\ ask.pc = "none"
    /\ \E r \in RunRequests :
        /\ ask' = RunFrame(r[1], r[2])
        /\ bld' = BuildFrame("run", r[1], RunLimits(r[2]))
    /\ UNCHANGED <<impvars, call, loadvars>>

\* Step 1 and the decision of step 2: the baseline bundle is back.
RunBaseline ==
    /\ ask.pc = "baseline" /\ bld.pc = "done"
    /\ bld' = NoBuild
    /\ ask' =
        IF bld.ret.exc # None
        THEN [ask EXCEPT !.pc = "done", !.queries = @ + bld.queries, !.ret = bld.ret]
        ELSE LET b == bld.ret.val
                 entry == [step |-> 1, call |-> [table |-> "bundle", q |-> ask.question],
                           result_summary |-> [l2 |-> Len(b.l2), l3 |-> Len(b.l3)]]
                 terms == IF ask.mode = "assembly" /\ _need_expand(b)
                          THEN ExpansionTerms(ask.question, b, Get(ask.opts, "beam", 3))
                          ELSE << >>
             IN [ask EXCEPT !.pc = IF terms = << >> THEN "rerank" ELSE "expand",
                            !.b = b, !.chunks = b.l3, !.trace = <<entry>>, !.terms = terms,
                            !.queries = @ + bld.queries]
    /\ UNCHANGED <<impvars, call, loadvars>>

\* _assembly_expand calls build for the next term.
RunExpandCall ==
    /\ ask.pc = "expand" /\ bld.pc = "none"
    /\ bld' = BuildFrame("run", ExpansionQuery(ask.question, Head(ask.terms)), ask.limits)
    /\ ask' = [ask EXCEPT !.builds = @ + 1]
    /\ UNCHANGED <<impvars, call, loadvars>>

\* The bundle of an expansion is back: its chunks join the pool.
RunExpandDone ==
    /\ ask.pc = "expand" /\ bld.pc = "done"
    /\ bld' = NoBuild
    /\ ask' =
        IF bld.ret.exc # None
        THEN [ask EXCEPT !.pc = "done", !.queries = @ + bld.queries, !.ret = bld.ret]
        ELSE LET b2 == bld.ret.val
                 entry == [step |-> "expand", q |-> bld.arg_topic, adds |-> Len(b2.l3)]
             IN [ask EXCEPT !.pc = IF Tail(ask.terms) = << >> THEN "rerank" ELSE "expand",
                            !.chunks = @ \o b2.l3, !.trace = Append(@, entry),
                            !.terms = Tail(@), !.queries = @ + bld.queries]
    /\ UNCHANGED <<impvars, call, loadvars>>

\* Steps 3 and 4: rerank, assemble, and the AnswerPack.
RunFinish ==
    /\ ask.pc = "rerank"
    /\ LET ranked == RunRerank(ask.question, ask.chunks)
       IN ask' = IF ranked.exc # None THEN [ask EXCEPT !.pc = "done", !.ret = ranked]
                 ELSE [ask EXCEPT !.pc = "done", !.ranked = ranked.val,
                                  !.ret = Return([data |-> AnswerPack(ranked.val, ask.mode,
                                                                      ask.trace, ask.opts)])]
    /\ UNCHANGED <<impvars, call, loadvars, bld>>

\* The caller of run has its result (or its exception).
RunDone ==
    /\ ask.pc = "done"
    /\ ask' = NoRun
    /\ UNCHANGED <<impvars, call, loadvars, bld>>

Next ==
    \/ BuildCall
    \/ BuildEnter
    \/ BuildLevel
    \/ BuildFinish
    \/ BuildDone
    \/ RunCall
    \/ RunBaseline
    \/ RunExpandCall
    \/ RunExpandDone
    \/ RunFinish
    \/ RunDone

Spec == Init /\ [][Next]_vars

(***************************************************************************)
(* Properties of build and run, checked under Spec                         *)
(***************************************************************************)

\* A build call has returned a bundle.
BuildReturned == bld.pc = "done" /\ bld.ret.exc = None

\* The text the store holds for the chunk of this id.
StoredText(id) ==
    LET rows == Store.chunks
        i == CHOOSE j \in 1..Len(rows) : rows[j].id = id
    IN rows[i].text

\* A topic that is None, empty, or whitespace only.
IsBlank(topic) == topic = NoneStr \/ \A i \in 1..Len(topic) : topic[i] \in Whitespace

\* C1: every chunk of the l3 list build returns has a text of length at
\* most chunk_text_max + 1, and a stored text no longer than chunk_text_max
\* is returned as it is stored, for every chunk_text_max >= 0.
C1_TextWithinBudget ==
    (BuildReturned /\ ~IsBlank(bld.arg_topic) /\ bld.lim.chunk_text_max >= 0) =>
        \A i \in 1..Len(bld.ret.val.l3) :
            LET c == bld.ret.val.l3[i]
                t == StoredText(c.id)
                m == bld.lim.chunk_text_max
            IN /\ Len(c.text) <= m + 1
               /\ Len(t) <= m => c.text = t

\* C2: when the store query of a level fails in a build call in which the
\* query of another level has succeeded, build does not raise the failure
\* (it returns a bundle), and neither does a run that made the call.
C2_FailedLevelDoesNotRaise ==
    /\ (bld.pc = "done" /\ bld.queries >= 2) => bld.ret.exc # "StoreError"
    /\ (ask.pc = "done" /\ ask.queries >= 2) => ask.ret.exc # "StoreError"

\* C3: when the embedding model fails to load or encode raises during a
\* build call, build does not raise: every level of the call is scored by
\* lexical overlap and the notes say lexical_fallback.
C3_ProviderFailureFallsBack ==
    bld.pc = "done" =>
        /\ bld.ret.exc # "EncodeError"
        /\ (bld.load_failed /\ bld.ret.exc = None) =>
                /\ \A l \in Range(Levels) : bld.scored[l] = "lexical"
                /\ NotesLexical(bld.ret.val)

\* C5: in every bundle build returns for a non-empty topic, the notes say
\* lexical_fallback exactly when the levels were scored by lexical overlap
\* and semantic exactly when they were scored from embeddings.
C5_NotesMatchScoring ==
    (BuildReturned /\ ~IsBlank(bld.arg_topic)) =>
        LET notes == Range(bld.ret.val.meta.notes) IN
        \A l \in Range(Levels) :
            /\ "lexical_fallback" \in notes <=> bld.scored[l] = "lexical"
            /\ "semantic" \in notes <=> bld.scored[l] = "semantic"

\* C6: build called with an empty, whitespace-only or None topic raises
\* nothing and returns the four lists empty with the note 'empty topic',
\* having made no store query and no embedding call.
C6_BlankTopicGivesEmptyBundle ==
    (bld.pc = "done" /\ IsBlank(bld.arg_topic)) =>
        /\ bld.ret.exc = None
        /\ \A l \in Range(Levels) : bld.ret.val[l] = << >>
        /\ bld.ret.val.meta.note = "empty topic"
        /\ bld.queries = 0 /\ bld.embeds = 0

C6_Witness ==
    /\ bld.pc = "done" /\ bld.caller = "caller"
    /\ bld.arg_topic = <<" ", "\t">>
    /\ bld.ret = Return(EmptyBundle(<< >>))

\* What C7 says of a run with a blank question, but for the trace.
DegeneratePack ==
    /\ ask.ret.exc = None
    /\ ask.ret.val.data.answer = APOLOGY
    /\ ask.ret.val.data.citations = << >>
    /\ ask.ret.val.data.meta.answer_mode = "sme"
    /\ ask.queries = 0 /\ ask.builds = 1

\* The trace has the single entry of the baseline bundle, with l2 = 0 and l3 = 0.
SingleEntryTrace(trace) ==
    Len(trace) = 1 /\ trace[1].result_summary = [l2 |-> 0, l3 |-> 0]

BaselineBack ==
    ask.pc \in {"expand", "rerank"} \/ (ask.pc = "done" /\ ask.trace # << >>)

\* The baseline bundle of run calls for expansion: diversity(l3) < 0.35 or
\* its notes say lexical_fallback.
BaselineNarrow ==
    \/ FracLess(_diversity(ask.b.l3), Frac(35, 100))
    \/ "lexical_fallback" \in Range(Get(ask.b.meta, "notes", << >>))

RunReturned == ask.pc = "done" /\ ask.ret.exc = None

\* C17: for every citations_max >= 0 (6 when absent) the AnswerPack has at
\* most citations_max citations, each with keys among id, doc_id and offset
\* only, and they are in order those of the first reranked candidates.
C17_CitationsBounded ==
    (RunReturned /\ Get(ask.opts, "citations_max", 6) >= 0) =>
        LET cits == ask.ret.val.data.citations
            cmax == Get(ask.opts, "citations_max", 6)
        IN /\ Len(cits) <= cmax
           /\ Len(cits) <= Len(ask.ranked)
           /\ \A i \in 1..Len(cits) :
                /\ DOMAIN cits[i] \subseteq {"id", "doc_id", "offset"}
                /\ cits[i].id = ask.ranked[i].id
                /\ cits[i].doc_id = ask.ranked[i].doc_id
           /\ Len(cits) < cmax => Len(cits) = Len(ask.ranked)

\* C17 witness: with citations_max = 1 and two reranked candidates the
\* AnswerPack cites the first.
C17_Witness ==
    /\ RunReturned
    /\ Get(ask.opts, "citations_max", 6) = 1
    /\ Len(ask.ranked) = 2
    /\ Len(ask.ret.val.data.citations) = 1
    /\ ask.ret.val.data.citations[1].id = ask.ranked[1].id

\* C18: with return_trace false the AnswerPack has no trace field, and with
\* return_trace true or absent it has the full trace.
C18_TraceOmitted ==
    RunReturned =>
        IF Get(ask.opts, "return_trace", TRUE)
        THEN ask.ret.val.data.trace = ask.trace
        ELSE "trace" \notin DOMAIN ask.ret.val.data

\* C26: no chunk is twice in the reranked list of run or in its citations,
\* also when an expansion bundle returned chunks the baseline bundle has:
\* the ranked candidates have pairwise distinct (doc_id, len(text) // 200).
C26_NoChunkTwice ==
    RunReturned =>
        LET cits == ask.ret.val.data.citations IN
        /\ \A i, j \in 1..Len(ask.ranked) : i # j =>
                /\ ask.ranked[i] # ask.ranked[j]
                /\ <<ask.ranked[i].doc_id, Len(ask.ranked[i].text) \div BandWidth>>
                        # <<ask.ranked[j].doc_id, Len(ask.ranked[j].text) \div BandWidth>>
        /\ \A i, j \in 1..Len(cits) : i # j => cits[i] # cits[j]

\* C26 witness: the pool held a chunk twice, once from the baseline bundle
\* and once from the expansion bundle, and two candidates were ranked.
C26_Witness ==
    /\ RunReturned /\ ask.builds = 2
    /\ \E i, j \in 1..Len(ask.chunks) : i # j /\ ask.chunks[i] = ask.chunks[j]
    /\ Len(ask.ranked) = 2
    /\ Len(ask.ret.val.data.citations) = 2

(***************************************************************************)
(* SpecFn: the pure functions, each applied to inputs drawn from bounded   *)
(* sets.  `call` records the call being made and what it returned.         *)
(***************************************************************************)

\* Pieces questions are put together from.
QuestionPieces ==
    { <<" ">>, <<"H","o","w"," ">>, <<"h","o","w","d","y">>, kw_steps, kw_parts,
      <<"C","o","m","p","a","r","e">>, kw_vs, kw_difference, kw_what_is, kw_define,
      <<"h","a","t">>, kw_assembly }

\* The number of pieces a question is put together from.
MaxPieces == 2

RECURSIVE PieceStrings(_)
PieceStrings(n) ==
    IF n = 0 THEN {<< >>}
    ELSE PieceStrings(n - 1) \cup {s \o p : s \in PieceStrings(n - 1), p \in QuestionPieces}

FnQuestions == PieceStrings(MaxPieces) \cup {NoneStr}

\* n characters of filler, for texts that reach the next length band.
Filler(n) == [i \in 1..n |-> "x"]

t_hat == <<"h","a","t">>
t_brim_hat == <<"b","r","i","m"," ","h","a","t">>

\* Candidates given to the rerankers: two documents, texts in two length
\* bands, and a candidate whose text is None.
CandPool ==
    { [id |-> 1, doc_id |-> "d1", text |-> t_hat],
      [id |-> 2, doc_id |-> "d1", text |-> t_brim_hat],
      [id |-> 3, doc_id |-> "d2", text |-> t_hat],
      [id |-> 4, doc_id |-> "d1", text |-> t_hat \o <<" ">> \o Filler(BandWidth)],
      [id |-> 5, doc_id |-> "d2", text |-> NoneStr] }

\* The longest candidate list.
MaxCands == 3

RECURSIVE SeqsUpTo(_, _)
SeqsUpTo(S, n) ==
    IF n = 0 THEN {<< >>}
    ELSE SeqsUpTo(S, n - 1) \cup {Append(s, x) : s \in SeqsUpTo(S, n - 1), x \in S}

FnCandidates == SeqsUpTo(CandPool, MaxCands)

FnRerankQuestions == {<< >>, <<"B","r","i","m"," ","h","a","t","?">>}

FnTopK == {0, 1, 2, MaxCands}

\* Chunks given to the assemblers: without text, with text None, with an
\* empty text, with a blank text and with sentences.
EvidencePool ==
    { [id |-> 1, doc_id |-> "d1"],
      [id |-> 2, doc_id |-> "d1", text |-> NoneStr],
      [id |-> 3, doc_id |-> "d1", text |-> << >>],
      [id |-> 4, doc_id |-> "d1", text |-> <<" ", " ">>],
      [id |-> 5, doc_id |-> "d1", text |-> <<" ","S","e","w"," ","t","h","e"," ","b","r","i","m","."," ","P","r","e","s","s"," ","i","t",".">>],
      [id |-> 6, doc_id |-> "d2", text |-> <<"T","h","e"," ","h","a","t","-","b","a","n","d"," ","2"," ","a","n","d"," ","t","a","p","e">>] }

\* The longest chunk list given to the assemblers.
MaxEvidence == 2

FnEvidence == SeqsUpTo(EvidencePool, MaxEvidence)

FnModes == {"procedure", "comparison", "definition", "assembly", "sme"}

FnInit ==
    /\ call = [op |-> "none"]
    /\ _model = NoModel
    /\ built = 0
    /\ thr = << >>
    /\ bld = NoBuild
    /\ ask = NoRun
    /\ NoImports

FnChooseMode ==
    /\ call.op = "none"
    /\ \E q \in FnQuestions :
        call' = [op |-> "_choose_mode", question |-> q, ret |-> _choose_mode(q)]
    /\ UNCHANGED <<impvars, loadvars, reqvars>>

\* answer_modes.choose_mode(question) is called.
FnModesChooseMode ==
    /\ call.op = "none"
    /\ \E q \in FnQuestions :
        call' = [op |-> "choose_mode", question |-> q, ret |-> choose_mode(q)]
    /\ UNCHANGED <<impvars, loadvars, reqvars>>

FnAskRerank ==
    /\ call.op = "none"
    /\ \E q \in FnRerankQuestions, cs \in FnCandidates, k \in FnTopK :
        call' = [op |-> "_rerank", question |-> q, candidates |-> cs, top_k |-> k,
                 ret |-> _rerank(q, cs, k)]
    /\ UNCHANGED <<impvars, loadvars, reqvars>>

FnRerank ==
    /\ call.op = "none"
    /\ \E q \in FnRerankQuestions, cs \in FnCandidates, k \in FnTopK :
        call' = [op |-> "rerank", question |-> q, candidates |-> cs, top_k |-> k,
                 ret |-> rerank(q, cs, k)]
    /\ UNCHANGED <<impvars, loadvars, reqvars>>

FnAskAssemble ==
    /\ call.op = "none"
    /\ \E cs \in FnEvidence, m \in FnModes :
        call' = [op |-> "_assemble_answer", chunks |-> cs, mode |-> m,
                 ret |-> _assemble_answer(cs, m)]
    /\ UNCHANGED <<impvars, loadvars, reqvars>>

FnAssemble ==
    /\ call.op = "none"
    /\ \E cs \in FnEvidence, m \in FnModes :
        call' = [op |-> "assemble", chunks |-> cs, mode |-> m, ret |-> assemble(cs, m)]
    /\ UNCHANGED <<impvars, loadvars, reqvars>>

\* The feature values calibrate is given: 0.0, 0.1, ..., 1.0.
Tenths == 0..10

FnFeatures ==
    [coverage : Tenths, consistency : Tenths, diversity : Tenths,
     lexical_fallback : BOOLEAN]
    \cup {<< >>, [coverage |-> 2], [lexical_fallback |-> TRUE]}

FnCalibrate ==
    /\ call.op = "none"
    /\ \E f \in FnFeatures :
        call' = [op |-> "calibrate", conf_feats |-> f, ret |-> calibrate(f)]
    /\ UNCHANGED <<impvars, loadvars, reqvars>>

FnDiversity ==
    /\ call.op = "none"
    /\ \E cs \in FnCandidates :
        call' = [op |-> "_diversity", chunks |-> cs, ret |-> _diversity(cs)]
    /\ UNCHANGED <<impvars, loadvars, reqvars>>

\* Graph nodes of the bundles given to _assembly_expand: labels that differ
\* in case and padding only, a label of more than 20 characters, a label
\* None and a node without label.
NodePool ==
    { [id |-> 1, label |-> <<"B","r","i","m">>],
      [id |-> 2, label |-> <<" ","b","r","i","m"," ">>],
      [id |-> 3, label |-> <<"p","a","r","t","s">>],
      [id |-> 4, label |-> <<"a"," ","l","a","b","e","l"," ","o","f"," ","t","w","e","n","t","y","-","o","n","e">>],
      [id |-> 5, label |-> NoneStr],
      [id |-> 6] }

\* The longest l2 list of these bundles.
MaxNodes == 2

FnSeeds == { <<"h","a","t">>, <<"h","a","t"," ","p","a","r","t","s">>, <<"B","R","I","M"," ","b","a","n","d","?">> }

\* The largest max_expands given to _assembly_expand.
MaxExpands == 3

\* _assembly_expand, up to the build calls it makes: ret holds the terms it
\* builds a query for, one build call each.
FnAssemblyExpand ==
    /\ call.op = "none"
    /\ \E seed \in FnSeeds, l2 \in SeqsUpTo(NodePool, MaxNodes), n \in -1..MaxExpands :
        call' = [op |-> "_assembly_expand", seed |-> seed, l2 |-> l2, max_expands |-> n,
                 ret |-> ExpansionTerms(seed, [l2 |-> l2], n)]
    /\ UNCHANGED <<impvars, loadvars, reqvars>>

\* The most rows given to _topk_scored, and the largest k.
MaxRows == 3

\* Rows fetched for a level, in fetch order: row i has id i.
FetchedRows(n) == [i \in 1..n |-> [id |-> i]]

\* The scores of the rows: cosines, or the lexical score 0.
RowScores == CosScores \cup {Frac(0, 1)}

FnTopkScored ==
    /\ call.op = "none"
    /\ \E n \in 0..MaxRows, k \in 0..MaxRows :
       \E scores \in [1..n -> RowScores] :
        call' = [op |-> "_topk_scored", scores |-> scores, rows |-> FetchedRows(n),
                 k |-> k, ret |-> _topk_scored(scores, FetchedRows(n), k)]
    /\ UNCHANGED <<impvars, loadvars, reqvars>>

\* The most distinct chunks in the pool run gives to its rerank step.
MaxPool == 13

\* A pool of n chunks of n documents, followed when twice is true by the
\* same chunks again (what expansion bundles add when they return chunks
\* the baseline bundle has).
ChunkPool(n, twice) ==
    LET once == [i \in 1..n |-> [id |-> i, doc_id |-> i, text |-> t_brim_hat]]
    IN IF twice THEN once \o once ELSE once

\* Step 3 of run, on a pool of chunks.
FnRunRerank ==
    /\ call.op = "none"
    /\ \E q \in FnRerankQuestions, n \in 0..MaxPool, twice \in BOOLEAN :
        call' = [op |-> "run.rerank", question |-> q, chunks |-> ChunkPool(n, twice),
                 ret |-> RunRerank(q, ChunkPool(n, twice))]
    /\ UNCHANGED <<impvars, loadvars, reqvars>>

\* The caller takes the result; the next call can be made.
FnDone ==
    /\ call.op # "none"
    /\ call' = [op |-> "none"]
    /\ UNCHANGED <<impvars, loadvars, reqvars>>

FnNext ==
    \/ FnChooseMode
    \/ FnAskRerank
    \/ FnRerank
    \/ FnAskAssemble
    \/ FnAssemble
    \/ FnCalibrate
    \/ FnDiversity
    \/ FnAssemblyExpand
    \/ FnTopkScored
    \/ FnRunRerank
    \/ FnModesChooseMode
    \/ FnDone

SpecFn == FnInit /\ [][FnNext]_vars

(***************************************************************************)
(* SpecLoad: smesvc/emb.py, embed_texts called by concurrent request       *)
(* threads.  _load_model takes no lock, so a thread can be suspended       *)
(* between any two of its statements.  Each constructed model is a new     *)
(* object: its handle is its construction number, and 0 stands for None.   *)
(***************************************************************************)

\* The request threads of the process.
NThreads == 2

\* The embed_texts calls one thread makes.
MaxCalls == 2

Threads == 1..NThreads

LoadInit ==
    /\ call = [op |-> "none"]
    /\ _model = NoModel
    /\ built = 0
    /\ thr = [t \in Threads |-> [pc |-> "idle", new |-> NoModel, m |-> NoModel, calls |-> 0,
                                  inits |-> 0]]
    /\ bld = NoBuild
    /\ ask = NoRun
    /\ NoImports

\* embed_texts(texts) is called: m = _load_model() begins.
EmbedCall(t) ==
    /\ thr[t].pc = "idle"
    /\ thr[t].calls < MaxCalls
    /\ thr' = [thr EXCEPT ![t].pc = "check", ![t].m = NoModel, ![t].new = NoModel,
                          ![t].calls = @ + 1]
    /\ UNCHANGED <<impvars, call, _model, built, reqvars>>

\* if _model is not None: return _model; otherwise the try block is entered
\* (inits counts the times the thread has entered it).
LoadCheck(t) ==
    /\ thr[t].pc = "check"
    /\ thr' = IF _model # NoModel
              THEN [thr EXCEPT ![t].pc = "loaded", ![t].m = _model]
              ELSE [thr EXCEPT ![t].pc = "construct", ![t].inits = @ + 1]
    /\ UNCHANGED <<impvars, call, _model, built, reqvars>>

\* SentenceTransformer(...) returns a new model
LoadConstruct(t) ==
    /\ thr[t].pc = "construct"
    /\ built' = built + 1
    /\ thr' = [thr EXCEPT ![t].pc = "assign", ![t].new = built + 1]
    /\ UNCHANGED <<impvars, call, _model, reqvars>>

\* the import or the constructor raises
LoadFail(t) ==
    /\ thr[t].pc = "construct"
    /\ thr' = [thr EXCEPT ![t].pc = "except"]
    /\ UNCHANGED <<impvars, call, _model, built, reqvars>>

\* _model = <the new model>
LoadAssign(t) ==
    /\ thr[t].pc = "assign"
    /\ _model' = thr[t].new
    /\ thr' = [thr EXCEPT ![t].pc = "return"]
    /\ UNCHANGED <<impvars, call, built, reqvars>>

\* except Exception: _model = NoModel
LoadExcept(t) ==
    /\ thr[t].pc = "except"
    /\ _model' = NoModel
    /\ thr' = [thr EXCEPT ![t].pc = "return"]
    /\ UNCHANGED <<impvars, call, built, reqvars>>

\* return _model (the global is read again)
LoadReturn(t) ==
    /\ thr[t].pc = "return"
    /\ thr' = [thr EXCEPT ![t].pc = "loaded", ![t].m = _model]
    /\ UNCHANGED <<impvars, call, _model, built, reqvars>>

\* embed_texts goes on with m (None: it returns None) and returns.
EmbedReturn(t) ==
    /\ thr[t].pc = "loaded"
    /\ thr' = [thr EXCEPT ![t].pc = "idle"]
    /\ UNCHANGED <<impvars, call, _model, built, reqvars>>

LoadNext ==
    \E t \in Threads :
        \/ EmbedCall(t)
        \/ LoadCheck(t)
        \/ LoadConstruct(t)
        \/ LoadFail(t)
        \/ LoadAssign(t)
        \/ LoadExcept(t)
        \/ LoadReturn(t)
        \/ EmbedReturn(t)

SpecLoad == LoadInit /\ [][LoadNext]_vars

\* C4: under every interleaving of concurrent embed_texts calls the model
\* is constructed at most once per process, and all callers that got a
\* model got the same one.  (The code violates it.)
C4_ConstructedOnce ==
    /\ built <= 1
    /\ \A t, u \in Threads :
        (thr[t].m # NoModel /\ thr[u].m # NoModel) => thr[t].m = thr[u].m

\* C22: over a sequential series of embed_texts calls (one thread calling,
\* the others never), the initialization of the model is performed at most
\* once: after the first _load_model call has completed, with or without
\* success, no later call performs it again.
C22_InitializedOnce ==
    \A t \in Threads :
        (\A u \in Threads \ {t} : thr[u].calls = 0) => thr[t].inits <= 1

(***************************************************************************)
(* Claims about the pure functions (checked under SpecFn)                  *)
(***************************************************************************)

IsRerankCall == call.op \in {"_rerank", "rerank"}

\* The band the claims speak of: (document id, len(text) // 200).
ClaimBand(ch) ==
    <<Get(ch, "doc_id", None), Len(OrEmpty(Get(ch, "text", NoneStr))) \div BandWidth>>

\* Whether a chunk has a non-empty text.
HasText(c) == Get(c, "text", NoneStr) \notin {NoneStr, << >>}

\* C8: in every mode, assembling an answer from an empty list, or from a
\* list in which no chunk has a non-empty text, returns the fixed sentence
\* "I don't have enough evidence to answer confidently."
C8_NoEvidenceGivesApology ==
    (/\ call.op \in {"_assemble_answer", "assemble"}
     /\ \A i \in 1..Len(call.chunks) : ~HasText(call.chunks[i]))
        => call.ret = APOLOGY

\* C8 witness: _assemble_answer was given two chunks, one with an empty
\* text and one with none, in mode procedure, and returned the sentence.
C8_Witness ==
    /\ call.op = "_assemble_answer"
    /\ call.mode = "procedure"
    /\ Len(call.chunks) = 2
    /\ \E i \in 1..2 : Get(call.chunks[i], "text", NoneStr) = << >>
    /\ \A i \in 1..2 : ~HasText(call.chunks[i])
    /\ call.ret = APOLOGY

\* C9: _choose_mode returns the mode of the first matching rule in the
\* order assembly, procedure, comparison, definition, sme.  So a question
\* with an assembly keyword yields assembly even when it starts with "how "
\* or contains "compare"; one that starts with "how " and contains
\* "difference" (and has no assembly keyword) yields procedure; one that
\* matches no rule yields sme.
C9_FirstMatchingRuleWins ==
    call.op = "_choose_mode" =>
        LET ql == Lower(OrEmpty(call.question))
            asm == \E k \in AssemblyKeywords : Contains(ql, k)
            proc == StartsWith(ql, kw_how_) \/ StartsWith(ql, kw_how_do)
                    \/ StartsWith(ql, kw_how_to) \/ Contains(ql, kw_steps)
            comp == Contains(ql, kw_compare) \/ Contains(ql, kw_vs)
                    \/ Contains(ql, kw_difference)
            defn == StartsWith(ql, kw_what_is) \/ StartsWith(ql, kw_define)
                    \/ StartsWith(ql, kw_definition)
        IN /\ asm => call.ret = "assembly"
           /\ (~asm /\ proc) => call.ret = "procedure"
           /\ (~asm /\ ~proc /\ comp) => call.ret = "comparison"
           /\ (~asm /\ ~proc /\ ~comp /\ defn) => call.ret = "definition"
           /\ (~asm /\ ~proc /\ ~comp /\ ~defn) => call.ret = "sme"

\* C9 witness: a question that starts with "how " and holds an assembly
\* keyword was classified assembly.
C9_Witness ==
    /\ call.op = "_choose_mode"
    /\ call.question # NoneStr
    /\ StartsWith(Lower(call.question), kw_how_)
    /\ Contains(Lower(call.question), kw_parts)
    /\ call.ret = "assembly"

\* C10: no two candidates returned by a reranker share a band, and of a
\* list whose members all have one document id and one length band at most
\* one is returned, whatever top_k is.
C10_OnePerBand ==
    (IsRerankCall /\ call.ret.exc = None) =>
        LET out == call.ret.val
            cs == call.candidates
        IN /\ \A i, j \in 1..Len(out) : i # j => ClaimBand(out[i]) # ClaimBand(out[j])
           /\ (\A i, j \in 1..Len(cs) : ClaimBand(cs[i]) = ClaimBand(cs[j])) => Len(out) <= 1

\* C10 witness: three candidates of one document and one band were given
\* with top_k = 3, and one came back.
C10_Witness ==
    /\ call.op = "_rerank"
    /\ call.ret.exc = None
    /\ Len(call.candidates) = 3
    /\ call.top_k = 3
    /\ \A i, j \in 1..3 : ClaimBand(call.candidates[i]) = ClaimBand(call.candidates[j])
    /\ Len(call.ret.val) = 1

\* The score a reranker gives a candidate of the call.
CallScore(ch) ==
    IF call.op = "_rerank" THEN _rerank_score(_q_tokens(call.question), ch)
    ELSE rerank_score(_q_tokens(call.question), ch)

\* The place of a candidate's first occurrence in the input of the call.
FirstIndex(ch) ==
    CHOOSE i \in 1..Len(call.candidates) :
        call.candidates[i] = ch /\ \A j \in 1..(i - 1) : call.candidates[j] # ch

\* C11: the list a reranker returns is in descending order of score, and
\* two returned candidates of equal score are in the order they have in the
\* input list.
C11_DescendingAndStable ==
    (IsRerankCall /\ call.ret.exc = None) =>
        LET out == call.ret.val IN
        \A i, j \in 1..Len(out) : i < j =>
            /\ ~FracLess(CallScore(out[i]), CallScore(out[j]))
            /\ FracEq(CallScore(out[i]), CallScore(out[j]))
                    => FirstIndex(out[i]) < FirstIndex(out[j])

\* C11 witness: _rerank returned three candidates, two of them of equal
\* score, and the first of the input is not the first returned.
C11_Witness ==
    /\ call.op = "_rerank" /\ call.ret.exc = None
    /\ Len(call.ret.val) = 3
    /\ call.ret.val[1] # call.candidates[1]
    /\ \E i, j \in 1..3 :
        i < j /\ FracEq(CallScore(call.ret.val[i]), CallScore(call.ret.val[j]))

\* C12: for every top_k >= 0 a reranker returns at most top_k candidates.
C12_AtMostTopK ==
    (IsRerankCall /\ call.ret.exc = None /\ call.top_k >= 0) =>
        Len(call.ret.val) <= call.top_k

\* A calibrate call given all four features.
IsFullCalibrateCall ==
    /\ call.op = "calibrate"
    /\ DOMAIN call.conf_feats = {"coverage", "consistency", "diversity", "lexical_fallback"}

\* C13: with coverage, consistency and diversity in [0, 1], raising any one
\* of them with the other inputs fixed never lowers the confidence
\* calibrate returns, and turning lexical_fallback from false to true with
\* the other inputs fixed never raises it.
C13_Monotone ==
    IsFullCalibrateCall =>
        LET f == call.conf_feats
            conf == call.ret.confidence
        IN /\ \A x \in Tenths :
                /\ x >= f.coverage =>
                        calibrate([f EXCEPT !.coverage = x]).confidence >= conf
                /\ x >= f.consistency =>
                        calibrate([f EXCEPT !.consistency = x]).confidence >= conf
                /\ x >= f.diversity =>
                        calibrate([f EXCEPT !.diversity = x]).confidence >= conf
           /\ ~f.lexical_fallback =>
                calibrate([f EXCEPT !.lexical_fallback = TRUE]).confidence <= conf

\* C13 witness: a call without fallback whose confidence a higher coverage
\* raises and the fallback lowers.
C13_Witness ==
    /\ IsFullCalibrateCall
    /\ ~call.conf_feats.lexical_fallback
    /\ call.conf_feats.coverage = 5
    /\ calibrate([call.conf_feats EXCEPT !.coverage = 6]).confidence > call.ret.confidence
    /\ calibrate([call.conf_feats EXCEPT !.lexical_fallback = TRUE]).confidence
            < call.ret.confidence

\* C14: the diversity of a candidate list is the number of its distinct
\* document ids over the number of its candidates when it is not empty, and
\* 1.0 when it is empty.
C14_DiversityRatio ==
    call.op = "_diversity" =>
        LET cs == call.chunks
            ids == {cs[i].doc_id : i \in 1..Len(cs)}
        IN IF cs = << >> THEN FracEq(call.ret, Frac(1, 1))
           ELSE FracEq(call.ret, Frac(Cardinality(ids), Len(cs)))

\* C16: with max_expands = b (the caller's beam), _assembly_expand makes at
\* most max(b, 0) build calls.
C16_AtMostBeamExpansions ==
    call.op = "_assembly_expand" => Len(call.ret) <= Max(call.max_expands, 0)

\* C20: no term _assembly_expand appends to the question, label or padding
\* term, is in lower case one of the question's tokens.
C20_NoTermOfQuestion ==
    call.op = "_assembly_expand" =>
        \A i \in 1..Len(call.ret) : Lower(call.ret[i]) \notin _q_tokens(call.seed)

(***************************************************************************)
(* api/catalog_map.py: GET /map.  A vector is a sequence of integers; a    *)
(* row whose vector column is null has no such field.                      *)
(***************************************************************************)

\* sum(x*y for x, y in zip(a, b))
RECURSIVE Dot(_, _)
Dot(a, b) ==
    IF a = << >> \/ b = << >> THEN 0
    ELSE Head(a) * Head(b) + Dot(Tail(a), Tail(b))

\* cos(a, b) of map_tiles, kept exact: the dot product and the square of
\* na * nb, where a norm of 0 counts as 1.0.
MapCos(a, b) ==
    LET na2 == IF Dot(a, a) = 0 THEN 1 ELSE Dot(a, a)
        nb2 == IF Dot(b, b) = 0 THEN 1 ELSE Dot(b, b)
    IN [dot |-> Dot(a, b), norms2 |-> na2 * nb2]

\* w >= 0.30
AtLeast030(w) == w.dot >= 0 /\ 100 * w.dot * w.dot >= 9 * w.norms2

\* The node of a document and the node of a topic.
DocNode(d) == [id |-> "doc:" \o d.doc_id, type |-> "doc", title |-> d.title]

TopicNode(t) == [id |-> t.prototype_id, type |-> "topic", topic |-> t.topic, size |-> t.size]

\* A variant of the edge whose dst is the bare document id.
MapEdge_BareDocId(t, d, w) ==
    [src |-> t.prototype_id, dst |-> d.doc_id, w |-> w,
     next |-> [path |-> "/query",
               body |-> [action |-> "query", table |-> "graph",
                         filters |-> [label |-> "ilike.%" \o t.topic \o "%",
                                      doc_id |-> "eq." \o d.doc_id],
                         limit |-> 50]]]

\* The edge from a topic to a document (w stands for round(float(w), 3)).
MapEdge(t, d, w) ==
    [src |-> t.prototype_id, dst |-> "doc:" \o d.doc_id, w |-> w,
     next |-> [path |-> "/query",
               body |-> [action |-> "query", table |-> "graph",
                         filters |-> [label |-> "ilike.%" \o t.topic \o "%",
                                      doc_id |-> "eq." \o d.doc_id],
                         limit |-> 50]]]

\* doc_vec.get(doc_id) or [], with doc_vec built from the rows of the
\* second docs query (a later row of a doc_id replaces an earlier one).
DocVec(doc_rows, doc_id) ==
    LET hits == {i \in 1..Len(doc_rows) : doc_rows[i].doc_id = doc_id}
    IN IF hits = {} THEN << >>
       ELSE Get(doc_rows[SetMax(hits)], "embed_384", << >>)

\* The edges of one topic, over the documents in order.
RECURSIVE TopicEdges(_, _, _)
TopicEdges(t, docs, doc_rows) ==
    IF docs = << >> THEN << >>
    ELSE LET d == Head(docs)
             tv == Get(t, "centroid_384", << >>)
             dv == DocVec(doc_rows, d.doc_id)
             rest == TopicEdges(t, Tail(docs), doc_rows)
         IN IF tv = << >> \/ dv = << >> THEN rest
            ELSE IF AtLeast030(MapCos(tv, dv)) THEN <<MapEdge(t, d, MapCos(tv, dv))>> \o rest
            ELSE rest

\* The loop of map_tiles over the topics.
RECURSIVE MapEdges(_, _, _)
MapEdges(topics, docs, doc_rows) ==
    IF topics = << >> THEN << >>
    ELSE TopicEdges(Head(topics), docs, doc_rows) \o MapEdges(Tail(topics), docs, doc_rows)

(***************************************************************************)
(* SpecMap: requests GET /map against a store whose docs and prototypes    *)
(* tables hold any of a few contents at each query; a query can raise.     *)
(* `call` is the frame of the request.                                     *)
(***************************************************************************)

\* Rows of the docs table: with a vector, with an empty vector, with none.
DocRowPool ==
    { [doc_id |-> "d1", title |-> "Hats", embed_384 |-> <<1, 0>>],
      [doc_id |-> "d1", title |-> "Hats", embed_384 |-> << >>],
      [doc_id |-> "d2", title |-> "Caps", embed_384 |-> <<1, 1>>],
      [doc_id |-> "d3", title |-> "Felt"] }

\* Rows of the prototypes table whose prototype_id is like topic:%.
TopicRowPool ==
    { [prototype_id |-> "topic:brim", topic |-> "brim", size |-> 3, centroid_384 |-> <<1, 0>>],
      [prototype_id |-> "topic:band", topic |-> "band", size |-> 2, centroid_384 |-> <<0, -2>>],
      [prototype_id |-> "topic:tape", topic |-> "tape", size |-> 1] }

\* The most rows a table holds, and the largest limit of a request.
MaxMapRows == 2

\* The docs table: rows of distinct doc_id.
DocTables ==
    {rows \in SeqsUpTo(DocRowPool, MaxMapRows) :
        \A i, j \in 1..Len(rows) : i # j => rows[i].doc_id # rows[j].doc_id}

\* The topics in the order the query asks for: size descending.
TopicTables ==
    {rows \in SeqsUpTo(TopicRowPool, MaxMapRows) :
        \A i, j \in 1..Len(rows) : i < j => rows[i].size > rows[j].size}

\* The columns the first docs query selects.
DocIdTitle(r) == [doc_id |-> r.doc_id, title |-> r.title]

MapInit ==
    /\ call = [op |-> "none"]
    /\ _model = NoModel
    /\ built = 0
    /\ thr = << >>
    /\ bld = NoBuild
    /\ ask = NoRun
    /\ NoImports

\* A client requests GET /map?doc_limit=..&topic_limit=..
MapCall ==
    /\ call.op = "none"
    /\ \E doc_limit \in 0..MaxMapRows, topic_limit \in 0..MaxMapRows :
        call' = [op |-> "map_tiles", pc |-> "docs", doc_limit |-> doc_limit,
                 topic_limit |-> topic_limit, docs |-> << >>, topics |-> << >>,
                 nodes |-> << >>, doc_rows |-> << >>, ret |-> Return(None)]
    /\ UNCHANGED <<impvars, loadvars, reqvars>>

\* The docs query.
MapDocs ==
    /\ call.op = "map_tiles" /\ call.pc = "docs"
    /\ \E sq \in {"ok", "raise"}, rows \in DocTables :
        call' = IF sq = "raise" THEN [call EXCEPT !.pc = "done", !.ret = Raise("StoreError")]
                ELSE LET got == SliceTo(rows, call.doc_limit)
                     IN [call EXCEPT !.pc = "topics",
                                     !.docs = [i \in 1..Len(got) |-> DocIdTitle(got[i])]]
    /\ UNCHANGED <<impvars, loadvars, reqvars>>

\* The prototypes query, and the nodes.
MapTopics ==
    /\ call.op = "map_tiles" /\ call.pc = "topics"
    /\ \E sq \in {"ok", "raise"}, rows \in TopicTables :
        call' = IF sq = "raise" THEN [call EXCEPT !.pc = "done", !.ret = Raise("StoreError")]
                ELSE LET topics == SliceTo(rows, call.topic_limit)
                     IN [call EXCEPT !.pc = "vectors", !.topics = topics,
                                     !.nodes = [i \in 1..Len(call.docs) |-> DocNode(call.docs[i])]
                                               \o [i \in 1..Len(topics) |-> TopicNode(topics[i])]]
    /\ UNCHANGED <<impvars, loadvars, reqvars>>

\* The query for the vectors of the documents found.
MapVectors ==
    /\ call.op = "map_tiles" /\ call.pc = "vectors"
    /\ \E sq \in {"ok", "raise"}, rows \in DocTables :
        call' = IF sq = "raise" THEN [call EXCEPT !.pc = "done", !.ret = Raise("StoreError")]
                ELSE LET ids == {call.docs[i].doc_id : i \in 1..Len(call.docs)}
                     IN [call EXCEPT !.pc = "edges",
                                     !.doc_rows = SelectSeq(rows, LAMBDA r : r.doc_id \in ids)]
    /\ UNCHANGED <<impvars, loadvars, reqvars>>

\* The edges, and the response.
MapReturn ==
    /\ call.op = "map_tiles" /\ call.pc = "edges"
    /\ call' = [call EXCEPT !.pc = "done",
                            !.ret = Return([nodes |-> call.nodes,
                                            edges |-> MapEdges(call.topics, call.docs,
                                                               call.doc_rows)])]
    /\ UNCHANGED <<impvars, loadvars, reqvars>>

\* The client has the response.
MapDone ==
    /\ call.op = "map_tiles" /\ call.pc = "done"
    /\ call' = [op |-> "none"]
    /\ UNCHANGED <<impvars, loadvars, reqvars>>

MapNext ==
    \/ MapCall
    \/ MapDocs
    \/ MapTopics
    \/ MapVectors
    \/ MapReturn
    \/ MapDone

SpecMap == MapInit /\ [][MapNext]_vars

\* GET /map has returned its object.
MapReturned == call.op = "map_tiles" /\ call.pc = "done" /\ call.ret.exc = None

\* The vector of a row: none when the column is null or the list is empty.
HasVector(row, col) == col \in DOMAIN row /\ row[col] # << >>

\* C19: the object GET /map returns has the lists nodes and edges; the src
\* of every edge is the id of a topic node and its dst the id of a doc node
\* of the same response, and an edge joins only a topic and a document
\* that both have vectors.
C19_EdgesJoinNodes ==
    MapReturned =>
        LET nodes == call.ret.val.nodes
            edges == call.ret.val.edges
        IN /\ {"nodes", "edges"} \subseteq DOMAIN call.ret.val
           /\ \A e \in 1..Len(edges) :
                /\ \E n \in 1..Len(nodes) :
                        nodes[n].type = "topic" /\ nodes[n].id = edges[e].src
                /\ \E n \in 1..Len(nodes) :
                        nodes[n].type = "doc" /\ nodes[n].id = edges[e].dst
                /\ \E t \in 1..Len(call.topics) :
                        /\ call.topics[t].prototype_id = edges[e].src
                        /\ HasVector(call.topics[t], "centroid_384")
                /\ \E r \in 1..Len(call.doc_rows) :
                        /\ "doc:" \o call.doc_rows[r].doc_id = edges[e].dst
                        /\ HasVector(call.doc_rows[r], "embed_384")

\* C19 witness: a response with two doc nodes and two topic nodes and a
\* single edge.
C19_Witness ==
    /\ MapReturned
    /\ Len(call.ret.val.nodes) = 4
    /\ Len(call.ret.val.edges) = 1

\* C21: for a limit k >= 0 the list of a level has min(k, number of rows
\* fetched) entries, in descending order of score with rows of equal score
\* in fetch order, and no retained row scores less than a dropped one.
C21_TopKByScore ==
    (call.op = "_topk_scored" /\ call.k >= 0) =>
        LET out == call.ret
            score(row) == call.scores[row.id]
            kept == {out[i].id : i \in 1..Len(out)}
        IN /\ Len(out) = Min(call.k, Len(call.rows))
           /\ \A i \in 1..Len(out) : out[i] \in Range(call.rows)
           /\ \A i, j \in 1..Len(out) : i < j =>
                /\ ~FracLess(score(out[i]), score(out[j]))
                /\ FracEq(score(out[i]), score(out[j])) => out[i].id < out[j].id
           /\ \A i \in kept, j \in DOMAIN call.scores \ kept :
                ~FracLess(call.scores[i], call.scores[j])

\* C21 witness: of three rows, the first with the lowest score and the
\* other two with equal scores, the two were kept in fetch order.
C21_Witness ==
    /\ call.op = "_topk_scored" /\ call.k = 2 /\ Len(call.rows) = 3
    /\ FracLess(call.scores[1], call.scores[2])
    /\ FracEq(call.scores[2], call.scores[3])
    /\ call.ret = <<[id |-> 2], [id |-> 3]>>

\* The coverage term a reranker computes for a candidate of the call.
CallCoverage(ch) ==
    IF call.op = "_rerank" THEN _rerank_cov(_q_tokens(call.question), ch)
    ELSE rerank_cov(_q_tokens(call.question), ch)

\* The whitespace-delimited tokens of a text in lower case.
LowerTokens(text) == Range(Split(Lower(OrEmpty(text))))

\* C23: the coverage term of a candidate is |question tokens n candidate
\* tokens| / |question tokens| over whitespace-delimited lower-cased
\* tokens, and 1 when the question has no tokens.
C23_CoverageRatio ==
    (IsRerankCall /\ call.ret.exc = None) =>
        \A i \in 1..Len(call.candidates) :
            LET qt == LowerTokens(call.question)
                ct == LowerTokens(Get(call.candidates[i], "text", NoneStr))
            IN FracEq(CallCoverage(call.candidates[i]),
                      IF qt = {} THEN Frac(1, 1)
                      ELSE Frac(Cardinality(qt \cap ct), Cardinality(qt)))

\* C24: the reranked list of run has at most 12 candidates, each of them a
\* chunk of the pool (the l3 of the baseline bundle and of the expansion
\* bundles).
C24_AtMostTwelveFromPool ==
    (call.op = "run.rerank" /\ call.ret.exc = None) =>
        /\ Len(call.ret.val) <= 12
        /\ \A i \in 1..Len(call.ret.val) : call.ret.val[i] \in Range(call.chunks)

\* C24 witness: of a pool of 13 chunks of 13 documents 12 were ranked.
C24_Witness ==
    /\ call.op = "run.rerank" /\ call.ret.exc = None
    /\ Cardinality(Range(call.chunks)) = 13
    /\ Len(call.ret.val) = 12

\* C25: answer_modes.choose_mode returns comparison for every question
\* whose lower-cased text contains "compare", " vs " or "difference" and
\* that the procedure rule does not match (it starts with none of "how ",
\* "how do", "how to" and does not contain "steps").
C25_ComparisonKeywords ==
    call.op = "choose_mode" =>
        LET q == Lower(OrEmpty(call.question))
            proc == StartsWith(q, kw_how_) \/ StartsWith(q, kw_how_do)
                    \/ StartsWith(q, kw_how_to) \/ Contains(q, kw_steps)
            comp == Contains(q, kw_compare) \/ Contains(q, kw_vs)
                    \/ Contains(q, kw_difference)
        IN (comp /\ ~proc) => call.ret = "comparison"

(***************************************************************************)
(* SpecImport: the chunked import sessions of Cleanlight_bk.py.  The app   *)
(* is started with `gunicorn Cleanlight_bk:app`, one synchronous worker,   *)
(* so a request is handled from its first line to its response before the  *)
(* next one begins: each handler is one action.  Bytes are sequences of    *)
(* one-character strings.  A session dict is a record; its chunks dict is  *)
(* a function from the stored indices to their bytes.                      *)
(***************************************************************************)

\* total_chunks = None: no chunk has declared the total yet.
NoTotal == -1

\* d[k] = v of a dict.
DictSet(d, k, v) == [x \in DOMAIN d \cup {k} |-> IF x = k THEN v ELSE d[x]]

\* A variant of DictPop that leaves the dict as it is.
DictPop_Keep(d, k) == d

\* d.pop(k, None) of a dict.
DictPop(d, k) == [x \in DOMAIN d \ {k} |-> d[x]]

\* The session import_initiate stores.  target, format, mode and key_col
\* are the ones of one valid body; the compression is the body's.
NewSession(sid, compression) ==
    [session_id |-> sid, target |-> "cleanlight_map", format |-> "ndjson",
     compression |-> compression, mode |-> "upsert", key_col |-> "id",
     received_chunks |-> 0, total_chunks |-> NoTotal, bytes_received |-> 0,
     status |-> "initiated", chunks |-> << >>, error |-> None]

\* _accept_chunk, for a session that exists and headers that are integers.
_accept_chunk(s, idx, total, chunk_bytes) ==
    LET s1 == [s EXCEPT !.status = "receiving"]
        s2 == IF s1.total_chunks = NoTotal THEN [s1 EXCEPT !.total_chunks = total] ELSE s1
        s3 == [s2 EXCEPT !.chunks = DictSet(s2.chunks, idx, chunk_bytes)]
        s4 == [s3 EXCEPT !.received_chunks = Cardinality(DOMAIN s3.chunks)]
        s5 == [s4 EXCEPT !.bytes_received = @ + Len(chunk_bytes)]
    IN IF s5.received_chunks = s5.total_chunks
       THEN [s5 EXCEPT !.status = "ready_to_finalize"]
       ELSE s5

\* _accept_chunk when X-Chunk-Index is no integer: int(idx) raises after
\* the status and the total were written.
_accept_chunk_BadIndex(s, total) ==
    LET s1 == [s EXCEPT !.status = "receiving"]
    IN IF s1.total_chunks = NoTotal THEN [s1 EXCEPT !.total_chunks = total] ELSE s1

\* The status code of `return jsonify(s), code`: a session dict with stored
\* chunks holds bytes, which jsonify cannot serialize (TypeError, 500).
JsonifySession(s, code) == IF DOMAIN s.chunks = {} THEN code ELSE 500

\* b"".join(chunks.get(i, b"") for i in range(total))
RECURSIVE JoinChunks(_, _)
JoinChunks(chunks, total) ==
    IF total <= 0 THEN << >>
    ELSE JoinChunks(chunks, total - 1) \o Get(chunks, total - 1, << >>)

\* import_finalize, "assemble bytes in order":
\* total = s["total_chunks"] or len(s["chunks"])
Assemble(s) ==
    LET total == IF s.total_chunks = NoTotal \/ s.total_chunks = 0
                 THEN Cardinality(DOMAIN s.chunks)
                 ELSE s.total_chunks
    IN JoinChunks(s.chunks, total)

\* assembled.split(b"\n")
RECURSIVE SplitLines(_)
SplitLines(bytes) ==
    IF \A i \in 1..Len(bytes) : bytes[i] # "\n" THEN <<bytes>>
    ELSE LET i == CHOOSE j \in 1..Len(bytes) :
                        bytes[j] = "\n" /\ \A k \in 1..(j - 1) : bytes[k] # "\n"
         IN <<SubSeq(bytes, 1, i - 1)>> \o SplitLines(SubSeq(bytes, i + 1, Len(bytes)))

\* json.loads(line) of a line of the bytes "{", "}" and "1": an object, a
\* number, or a JSONDecodeError.
JsonLoads(line) ==
    IF line = <<"{", "}">> THEN "object"
    ELSE IF line # << >> /\ \A i \in 1..Len(line) : line[i] = "1" THEN "number"
    ELSE "error"

\* The counters before the first line.
NoRows == [raised |-> FALSE, ok_ins |-> 0, ok_upd |-> 0, fail |-> 0]

\* The ingestion loop of import_finalize from line i on.  An empty line is
\* skipped; a line that is no JSON counts as failed; a JSON value that is no
\* object raises at obj.get(key_col), outside the try; the object {} has no
\* key and is inserted, which the database accepts (db = "ok") or not.
RECURSIVE IngestLines(_, _, _, _)
IngestLines(lines, i, db, acc) ==
    IF i > Len(lines) THEN acc
    ELSE IF Strip(lines[i]) = << >> THEN IngestLines(lines, i + 1, db, acc)
    ELSE IF JsonLoads(lines[i]) = "error"
    THEN IngestLines(lines, i + 1, db, [acc EXCEPT !.fail = @ + 1])
    ELSE IF JsonLoads(lines[i]) = "number" THEN [acc EXCEPT !.raised = TRUE]
    ELSE IF db = "ok" THEN IngestLines(lines, i + 1, db, [acc EXCEPT !.ok_ins = @ + 1])
    ELSE IngestLines(lines, i + 1, db, [acc EXCEPT !.fail = @ + 1])

\* The result object of import_finalize.
IngestResult(acc) ==
    [rows_processed |-> acc.ok_ins + acc.ok_upd + acc.fail, rows_inserted |-> acc.ok_ins,
     rows_updated |-> acc.ok_upd, rows_failed |-> acc.fail]

\* The session ids uuid4 gives out, in the order it gives them out; no id
\* is given out twice.
MaxSessions == 2

SessionIds == 1..MaxSessions

\* The chunk indices and totals of the requests.
ChunkIndexes == {0, 1}

ChunkTotals == {0, 1, 2}

\* The bodies of the chunk requests.
ChunkBytes == {<< >>, <<"1">>, <<"{", "}", "\n">>}

\* The most bytes a session is sent.
MaxBytes == 4

\* What zstd makes of the assembled bytes when it does not fail.
Decompressed == {<<"{", "}">>, <<"1">>}

\* The response to a request, with what import_finalize assembled and
\* counted and whether it ran its ingestion loop.
Response(op, sid, code) ==
    [op |-> op, sid |-> sid, code |-> code, assembled |-> << >>, ingest |-> FALSE,
     result |-> IngestResult(NoRows)]

ImportInit ==
    /\ call = [op |-> "none"]
    /\ _model = NoModel
    /\ built = 0
    /\ thr = << >>
    /\ bld = NoBuild
    /\ ask = NoRun
    /\ NoImports

\* POST /import/initiate.  The clients run one import at a time: a session
\* is initiated when the one before it is gone.
import_initiate ==
    /\ \E body \in {"invalid", "none", "zstd"} :
        IF body = "invalid"
        THEN /\ resp' = Response("import_initiate", 0, 400)
             /\ UNCHANGED <<_IMPORT_SESSIONS, issued>>
        ELSE /\ issued < MaxSessions
             /\ DOMAIN _IMPORT_SESSIONS = {}
             /\ issued' = issued + 1
             /\ _IMPORT_SESSIONS' =
                    DictSet(_IMPORT_SESSIONS, issued + 1, NewSession(issued + 1, body))
             /\ resp' = Response("import_initiate", issued + 1, 200)
    /\ UNCHANGED <<call, loadvars, reqvars, closed>>

\* PUT or POST /import/<session_id>/chunk.  The session is unknown; or a
\* header is missing, or the POST form lacks the field chunk; or
\* X-Chunk-Index is no integer; or the chunk is accepted.
ChunkRequest(op, sid) ==
    /\  \/ /\ sid \notin DOMAIN _IMPORT_SESSIONS
           /\ resp' = Response(op, sid, 404)
           /\ UNCHANGED _IMPORT_SESSIONS
        \/ /\ sid \in DOMAIN _IMPORT_SESSIONS
           /\ resp' = Response(op, sid, 400)
           /\ UNCHANGED _IMPORT_SESSIONS
        \/ /\ sid \in DOMAIN _IMPORT_SESSIONS
           /\ \E total \in ChunkTotals :
                _IMPORT_SESSIONS' =
                    DictSet(_IMPORT_SESSIONS, sid,
                            _accept_chunk_BadIndex(_IMPORT_SESSIONS[sid], total))
           /\ resp' = Response(op, sid, 500)
        \/ /\ sid \in DOMAIN _IMPORT_SESSIONS
           /\ \E idx \in ChunkIndexes, total \in ChunkTotals, chunk \in ChunkBytes :
                LET st == _accept_chunk(_IMPORT_SESSIONS[sid], idx, total, chunk)
                IN /\ st.bytes_received <= MaxBytes
                   /\ _IMPORT_SESSIONS' = DictSet(_IMPORT_SESSIONS, sid, st)
                   /\ resp' = Response(op, sid, JsonifySession(st, 200))
    /\ UNCHANGED <<call, loadvars, reqvars, issued, closed>>

\* PUT /import/<session_id>/chunk
import_chunk_put ==
    \E sid \in SessionIds : ChunkRequest("import_chunk_put", sid)

\* POST /import/<session_id>/chunk
import_chunk_multipart ==
    \E sid \in SessionIds : ChunkRequest("import_chunk_multipart", sid)

\* GET /import/<session_id>/status
import_status ==
    /\ \E sid \in SessionIds :
        resp' = IF sid \in DOMAIN _IMPORT_SESSIONS
                THEN Response("import_status", sid, JsonifySession(_IMPORT_SESSIONS[sid], 200))
                ELSE Response("import_status", sid, 404)
    /\ UNCHANGED <<call, loadvars, reqvars, _IMPORT_SESSIONS, issued, closed>>

\* POST /import/<session_id>/abort
import_abort ==
    /\ \E sid \in SessionIds :
        IF sid \in DOMAIN _IMPORT_SESSIONS
        THEN /\ _IMPORT_SESSIONS' = DictPop(_IMPORT_SESSIONS, sid)
             /\ resp' = Response("import_abort", sid, 200)
             /\ closed' = closed \cup {<<sid, "import_abort">>}
        ELSE /\ resp' = Response("import_abort", sid, 404)
             /\ UNCHANGED <<_IMPORT_SESSIONS, closed>>
    /\ UNCHANGED <<call, loadvars, reqvars, issued>>

\* POST /import/<session_id>/finalize
import_finalize ==
    /\ \E sid \in SessionIds, zok \in BOOLEAN, z \in Decompressed, db \in {"ok", "fail"} :
        IF sid \notin DOMAIN _IMPORT_SESSIONS
        THEN /\ resp' = Response("import_finalize", sid, 404)
             /\ UNCHANGED <<_IMPORT_SESSIONS, closed>>
        ELSE
            LET s == _IMPORT_SESSIONS[sid]
                assembled == Assemble(s)
                zfail == s.compression = "zstd" /\ (~zok \/ assembled = << >>)
                bytes == IF s.compression = "zstd" THEN z ELSE assembled
                acc == IngestLines(SplitLines(bytes), 1, db, NoRows)
            IN IF zfail
               THEN LET se == [s EXCEPT !.error = "zstd decompress failed"]
                    IN /\ _IMPORT_SESSIONS' = DictSet(_IMPORT_SESSIONS, sid, se)
                       /\ resp' = [Response("import_finalize", sid, JsonifySession(se, 400))
                                        EXCEPT !.assembled = assembled]
                       /\ UNCHANGED closed
               ELSE IF acc.raised
               THEN /\ _IMPORT_SESSIONS' =
                            DictSet(_IMPORT_SESSIONS, sid, [s EXCEPT !.status = "ingesting"])
                    /\ resp' = [Response("import_finalize", sid, 500)
                                    EXCEPT !.assembled = assembled, !.ingest = TRUE]
                    /\ UNCHANGED closed
               ELSE /\ _IMPORT_SESSIONS' = DictPop(_IMPORT_SESSIONS, sid)
                    /\ resp' = [Response("import_finalize", sid, 200)
                                    EXCEPT !.assembled = assembled, !.ingest = TRUE,
                                           !.result = IngestResult(acc)]
                    /\ closed' = closed \cup {<<sid, "import_finalize">>}
    /\ UNCHANGED <<call, loadvars, reqvars, issued>>

ImportNext ==
    \/ import_initiate
    \/ import_chunk_put
    \/ import_chunk_multipart
    \/ import_status
    \/ import_abort
    \/ import_finalize

SpecImport == ImportInit /\ [][ImportNext]_vars

\* The session ids finalize or abort has answered 200 for.
ClosedIds == {c[1] : c \in closed}

\* The sum of the sizes of the chunks a session stores.
RECURSIVE StoredSize(_)
StoredSize(chunks) ==
    IF DOMAIN chunks = {} THEN 0
    ELSE LET i == CHOOSE j \in DOMAIN chunks : TRUE
         IN Len(chunks[i]) + StoredSize([j \in DOMAIN chunks \ {i} |-> chunks[j]])

\* The stored chunks of the indices i..n-1, one after the other.
RECURSIVE StoredInOrder(_, _, _)
StoredInOrder(chunks, i, n) ==
    IF i >= n THEN << >>
    ELSE (IF i \in DOMAIN chunks THEN chunks[i] ELSE << >>) \o StoredInOrder(chunks, i + 1, n)

\* C27: the status of a session is ready_to_finalize only if every chunk
\* index 0..total_chunks-1 has been received, total_chunks being the total
\* the first accepted chunk declared.
C27_ReadyOnlyWhenComplete ==
    \A sid \in DOMAIN _IMPORT_SESSIONS :
        LET s == _IMPORT_SESSIONS[sid] IN
        s.status = "ready_to_finalize" =>
            \A i \in 0..(s.total_chunks - 1) : i \in DOMAIN s.chunks

\* C28: the bytes import_finalize assembles for a session whose first
\* accepted chunk declared total_chunks are the stored chunks of the
\* indices 0..total_chunks-1 in ascending order of index, whatever the
\* order of the uploads was.
C28_AssembledInIndexOrder ==
    [][\A sid \in DOMAIN _IMPORT_SESSIONS :
            LET s == _IMPORT_SESSIONS[sid] IN
            (resp'.op = "import_finalize" /\ resp'.sid = sid /\ s.total_chunks # NoTotal)
                => resp'.assembled = StoredInOrder(s.chunks, 0, s.total_chunks)]_vars

\* C29: after any chunk uploads, re-uploads of an index included,
\* bytes_received of a session is the total size of the chunks it stores
\* and received_chunks the number of indices it stores.
C29_CountersMatchStoredChunks ==
    \A sid \in DOMAIN _IMPORT_SESSIONS :
        LET s == _IMPORT_SESSIONS[sid] IN
        /\ s.bytes_received = StoredSize(s.chunks)
        /\ s.received_chunks = Cardinality(DOMAIN s.chunks)

\* C30: once import_finalize has answered 200 with its result or
\* import_abort has answered 200 for a session id, the session does not
\* exist, now or later; every later chunk upload, status, finalize or abort
\* request for the id is answered 404 and runs no ingestion.
C30_ClosedSessionIsGone ==
    [][\A sid \in ClosedIds :
            /\ sid \notin DOMAIN _IMPORT_SESSIONS
            /\ sid \notin DOMAIN _IMPORT_SESSIONS'
            /\ (resp'.sid = sid /\ resp'.op # "import_initiate")
                    => (resp'.code = 404 /\ ~resp'.ingest)]_vars

\* C30 witness: one session was finalized and one aborted, and a second
\* finalize of the first was answered 404.
C30_Witness ==
    /\ <<1, "import_finalize">> \in closed
    /\ <<2, "import_abort">> \in closed
    /\ resp.op = "import_finalize" /\ resp.sid = 1 /\ resp.code = 404

=============================================================================
